---------------------------- MODULE Spec2Model ----------------------------
(* A model of topwrap's design-description -> Pipeline Manager dataflow    *)
(* translation (fpga_topwrap/design_to_kpm_dataflow_parser.py).            *)
(*                                                                         *)
(* Python values are tagged records (PyStr, PyInt, PySized, PyNone), a     *)
(* Python dict is the sequence of its <<key, value>> items in insertion    *)
(* order, and a Python str is a TLA+ string.                               *)
EXTENDS Integers, Sequences, FiniteSets, TLC

VARIABLES
    counter,          \* IDGenerator.__counter
    issued,           \* the generate_id calls of the run: [t, c, id]
    pc,               \* position in kpm_dataflow_from_design_descr
    design_descr,     \* argument: the design description
    specification,    \* argument: the specification catalog
    now,              \* int(time() * 1000) as read during the run
    nodes,            \* local `nodes`
    metanodes,        \* local `metanodes`
    connections,      \* local `connections`
    ext_connections,  \* local `ext_connections`
    log,              \* logging.warning calls, in order
    raised,           \* the exception that left the translation, or "none"
    dataflow,         \* the returned document, or NoDocument
    threads,          \* the threads inside generate_id: [pc, t, c, loaded, calls]
    serdes,           \* common_serdes: the tree, the field names and the results
    rpc               \* the RPC client: the RPCMethods object, its files, its requests

vars == <<counter, issued, pc, design_descr, specification, now, nodes,
          metanodes, connections, ext_connections, log, raised, dataflow, threads,
          serdes, rpc>>

transVars == <<pc, design_descr, specification, now, nodes, metanodes,
               connections, ext_connections, log, raised, dataflow>>

-----------------------------------------------------------------------------
(* Bounds of the model *)

\* generate_id calls followed in the specification of the generator alone
MaxIds == 11

\* connection entries of a design built from the reduced candidate set
MaxEntries == 2

\* boundary signals declared in the `external` section
MaxExt == 2

\* integers used as parameter values are -MaxParam .. MaxParam
MaxParam == 17

-----------------------------------------------------------------------------
(* Python's str(int) and hex(int) *)

DecDigit(d) == SubSeq("0123456789", d + 1, d + 1)

HexDigit(d) == SubSeq("0123456789abcdef", d + 1, d + 1)

RECURSIVE NatDigits(_, _)
\* the digits of n >= 0 in the given base, most significant first
NatDigits(n, base) ==
    LET d == IF base = 10 THEN DecDigit(n % base) ELSE HexDigit(n % base)
    IN  IF n < base THEN d ELSE NatDigits(n \div base, base) \o d

\* str(n) for an int n
Str(n) == IF n < 0 THEN "-" \o NatDigits(-n, 10) ELSE NatDigits(n, 10)

\* hex(n) for an int n
Hex(n) == IF n < 0 THEN "-0x" \o NatDigits(-n, 16) ELSE "0x" \o NatDigits(n, 16)

\* s[k:] for a str s and k >= 0
StrFrom(s, k) == IF k >= Len(s) THEN "" ELSE SubSeq(s, k + 1, Len(s))

-----------------------------------------------------------------------------
(* IDGenerator *)

GenerateIdNoCounter(t, c) == Str(t)

\* the value generate_id returns when the clock reads t and __counter is c
GenerateId(t, c) == Str(t) \o Str(c)

\* values the millisecond clock may return in the generator's own specification
ClockValues == {1, 11, 12}

InitIds ==
    /\ counter = 0
    /\ issued = <<>>
    /\ pc = "ids"
    /\ design_descr = <<>>
    /\ specification = <<>>
    /\ now = 0
    /\ nodes = <<>>
    /\ metanodes = <<>>
    /\ connections = <<>>
    /\ ext_connections = <<>>
    /\ log = <<>>
    /\ raised = "none"
    /\ dataflow = <<>>
    /\ threads = <<>>
    /\ rpc = <<>>
    /\ serdes = <<>>

\* one call of generate_id; the clock value it reads is arbitrary
GenerateIdCall ==
    /\ pc = "ids"
    /\ Len(issued) < MaxIds
    /\ \E t \in ClockValues :
         issued' = Append(issued, [t |-> t, c |-> counter, id |-> GenerateId(t, counter)])
    /\ counter' = counter + 1
    /\ UNCHANGED <<transVars, threads, serdes, rpc>>

NextIds == GenerateIdCall

SpecIds == InitIds /\ [][NextIds]_vars

-----------------------------------------------------------------------------
(* Python values and dicts *)

PyStr(s) == [t |-> "str", s |-> s, s2 |-> "", n |-> 0, w |-> 0]

PyInt(n) == [t |-> "int", s |-> "", s2 |-> "", n |-> n, w |-> 0]

\* a dict whose keys are exactly {"value", "width"}
PySized(v, w) == [t |-> "dict", s |-> "", s2 |-> "", n |-> v, w |-> w]

\* a two-element list [a, b] of strings
PyList(a, b) == [t |-> "list", s |-> a, s2 |-> b, n |-> 0, w |-> 0]

\* a value of any other type (a float)
PyOther == [t |-> "other", s |-> "", s2 |-> "", n |-> 0, w |-> 0]

PyNone == [t |-> "none", s |-> "", s2 |-> "", n |-> 0, w |-> 0]

\* k in d.keys()
DictHas(d, k) == \E i \in 1..Len(d) : d[i][1] = k

\* d[k], for a key d holds
DictGet(d, k) == d[CHOOSE i \in 1..Len(d) : d[i][1] = k][2]

\* d[k] = v: an existing key keeps its place, a new key goes last
DictSet(d, k, v) ==
    IF DictHas(d, k)
    THEN [i \in 1..Len(d) |-> IF d[i][1] = k THEN <<k, v>> ELSE d[i]]
    ELSE Append(d, <<k, v>>)

\* list(d.keys()) and list(d.values())
DictKeys(d) == [i \in 1..Len(d) |-> d[i][1]]

DictValues(d) == [i \in 1..Len(d) |-> d[i][2]]

\* the elements of a sequence
Range(f) == {f[i] : i \in 1..Len(f)}

\* one logging.warning call
Warn(kind, a, b) == [kind |-> kind, a |-> a, b |-> b]

-----------------------------------------------------------------------------
(* os.path.basename and os.path.splitext *)

\* s.rfind(ch) + 1: the 1-based place of the last ch in s, 0 when there is none
RFind(s, ch) ==
    LET at == {i \in 1..Len(s) : SubSeq(s, i, i) = ch}
    IN  IF at = {} THEN 0 ELSE CHOOSE i \in at : \A j \in at : j <= i

Basename(path) == StrFrom(path, RFind(path, "/"))

\* os.path.splitext(p)[0]: the last dot splits, unless only dots precede it
SplitextRoot(p) ==
    LET sep == RFind(p, "/")
        dot == RFind(p, ".")
    IN  IF dot > sep /\ \E i \in (sep + 1)..(dot - 1) : SubSeq(p, i, i) # "."
        THEN SubSeq(p, 1, dot - 1)
        ELSE p

\* line 195: the type of an IP core is the stem of its file
IpType(file) == SplitextRoot(Basename(file))

-----------------------------------------------------------------------------
(* The graph entity model *)

KPM_DIR_INPUT == "input"

KPM_DIR_OUTPUT == "output"

KPM_DIR_INOUT == "inout"

KPM_DIRS == {KPM_DIR_INPUT, KPM_DIR_OUTPUT, KPM_DIR_INOUT}

EXT_IFACE_NAME == "external"

KPM_EXT_PROP_NAME == "External Name"

EXT_OUTPUT_NAME == "EXT_OUTPUT"

EXT_INPUT_NAME == "EXT_INPUT"

EXT_INOUT_NAME == "EXT_INOUT"

EXT_NAMES == {EXT_OUTPUT_NAME, EXT_INPUT_NAME, EXT_INOUT_NAME}

default_width == 200

\* KPMDataflowNodeInterface.__init__ raises for any other direction
InterfaceDirectionValid(direction) == direction \in KPM_DIRS

\* KPMDataflowNodeInterface(name, direction), the clock reading t, __counter c
KPMDataflowNodeInterface(name, direction, t, c) ==
    [id |-> "ni_" \o GenerateId(t, c), name |-> name, direction |-> direction]

\* KPMDataflowNodeProperty(name, value)
KPMDataflowNodeProperty(name, value, t, c) ==
    [id |-> GenerateId(t, c), name |-> name, value |-> value]

\* KPMDataflowNode(name, type, properties, interfaces)
KPMDataflowNode(name, type, properties, interfaces, t, c) ==
    [id |-> "node_" \o GenerateId(t, c), name |-> name, type |-> type,
     properties |-> properties, interfaces |-> interfaces]

\* KPMDataflowConnection(id_from, id_to)
KPMDataflowConnection(id_from, id_to, t, c) ==
    [id |-> GenerateId(t, c), id_from |-> id_from, id_to |-> id_to]

\* interface_dir_by_node_name
InterfaceDirByNodeNameSame(node_name) ==
    IF node_name = EXT_OUTPUT_NAME THEN KPM_DIR_OUTPUT
    ELSE IF node_name = EXT_INPUT_NAME THEN KPM_DIR_INPUT
    ELSE KPM_DIR_INOUT

InterfaceDirByNodeName(node_name) ==
    IF node_name = EXT_OUTPUT_NAME THEN KPM_DIR_INPUT
    ELSE IF node_name = EXT_INPUT_NAME THEN KPM_DIR_OUTPUT
    ELSE KPM_DIR_INOUT

\* KPMDataflowNode.new_external_node, for a node_name it accepts: the property
\* (whose value is the str property_name) takes its id first, then the
\* interface, then the node
NewExternalNode(node_name, property_name, t, c) ==
    KPMDataflowNode(
        node_name, node_name,
        <<KPMDataflowNodeProperty(KPM_EXT_PROP_NAME, PyStr(property_name), t, c)>>,
        <<KPMDataflowNodeInterface(EXT_IFACE_NAME, InterfaceDirByNodeName(node_name),
                                   t, c + 1)>>,
        t, c + 2)

\* KPMDataflowNode.to_json_format
NodeToJsonFormat(node) ==
    [type |-> node.type,
     id |-> node.id,
     name |-> node.name,
     interfaces |->
        [i \in 1..Len(node.interfaces) |->
            [name |-> node.interfaces[i].name,
             id |-> node.interfaces[i].id,
             direction |-> node.interfaces[i].direction,
             connectionSide |-> IF node.interfaces[i].direction = KPM_DIR_INPUT
                                THEN "left" ELSE "right"]],
     position |-> [x |-> 0, y |-> 0],
     width |-> default_width,
     twoColumn |-> FALSE,
     properties |->
        [i \in 1..Len(node.properties) |->
            [name |-> node.properties[i].name,
             id |-> node.properties[i].id,
             value |-> node.properties[i].value]]]

\* KPMDataflowConnection.to_json_format
ConnectionToJsonFormat(conn) ==
    [id |-> conn.id, from |-> conn.id_from, to |-> conn.id_to]

-----------------------------------------------------------------------------
(* design.py: the name sets of the `design` section *)

\* get_hierarchies_names(design)
GetHierarchiesNames(design) ==
    IF "hierarchies" \in design.keys THEN Range(design.hierarchies) ELSE {}

\* get_interconnects_names(design)
GetInterconnectsNames(design) ==
    IF "interconnects" \in design.keys THEN Range(design.interconnects) ELSE {}

\* get_ipcores_names(design): the component list without the hierarchies and
\* the interconnects, in the list's order
GetIpcoresNames(design) ==
    LET skip == GetHierarchiesNames(design) \cup GetInterconnectsNames(design)
        keep(name) == name \notin skip
    IN  SelectSeq(design.components, keep)

-----------------------------------------------------------------------------
(* Node construction *)

GetSpecificationNodeByTypeEmpty(type, spec) ==
    LET at == {i \in 1..Len(spec.nodes) : spec.nodes[i].type = type}
    IN  IF at = {}
        THEN [found |-> TRUE,
              node |-> [type |-> type, properties |-> <<>>, interfaces |-> <<>>],
              log |-> <<Warn("type_not_found", type, "")>>]
        ELSE [found |-> TRUE,
              node |-> spec.nodes[CHOOSE i \in at : \A j \in at : i <= j],
              log |-> <<>>]

\* _get_specification_node_by_type: the first node of that type, or None
\* with a warning
GetSpecificationNodeByType(type, spec) ==
    LET at == {i \in 1..Len(spec.nodes) : spec.nodes[i].type = type}
    IN  IF at = {}
        THEN [found |-> FALSE, node |-> <<>>,
              log |-> <<Warn("type_not_found", type, "")>>]
        ELSE [found |-> TRUE,
              node |-> spec.nodes[CHOOSE i \in at : \A j \in at : i <= j],
              log |-> <<>>]

IpcoreParamToKpmValueRaw(param) ==
    IF param.t = "dict"
    THEN PyStr(Str(param.w) \o "'h" \o StrFrom(Hex(param.n), 2))
    ELSE param

\* _ipcore_param_to_kpm_value
IpcoreParamToKpmValue(param) ==
    IF param.t = "str" THEN param
    ELSE IF param.t = "int" THEN PyStr(Str(param.n))
    ELSE IF param.t = "dict"
    THEN PyStr(Str(param.w) \o "'h" \o StrFrom(Hex(param.n), 2))
    ELSE PyNone

RECURSIVE KpmPropertiesDict(_, _, _, _)
\* lines 200-203: the dict comprehension; every declared property is
\* constructed (and takes an id), and a repeated name replaces the value
\* kept under that name
KpmPropertiesDict(props, t, c, d) ==
    IF props = <<>> THEN d
    ELSE LET prop == Head(props)
         IN  KpmPropertiesDict(
                 Tail(props), t, c + 1,
                 DictSet(d, prop.name,
                         KPMDataflowNodeProperty(prop.name, prop.default, t, c)))

RECURSIVE ApplyParametersAll(_, _, _)
ApplyParametersAll(items, ip_name, acc) ==
    IF items = <<>> THEN acc
    ELSE LET param_name == Head(items)[1]
             param_val == Head(items)[2]
             d == acc.d
             at == IF d = <<>> THEN 0 ELSE 1
         IN  ApplyParametersAll(
                 Tail(items), ip_name,
                 IF at # 0
                 THEN [d |-> DictSet(d, d[at][1],
                                     [d[at][2] EXCEPT
                                        !.value = IpcoreParamToKpmValue(param_val)]),
                       log |-> acc.log]
                 ELSE [d |-> d,
                       log |-> Append(acc.log,
                                      Warn("param_not_found", param_name, ip_name))])

RECURSIVE ApplyParameters(_, _, _)
\* lines 205-209: each override sets the value of the property of its name,
\* or warns when there is none
ApplyParameters(items, ip_name, acc) ==
    IF items = <<>> THEN acc
    ELSE LET param_name == Head(items)[1]
             param_val == Head(items)[2]
         IN  ApplyParameters(
                 Tail(items), ip_name,
                 IF DictHas(acc.d, param_name)
                 THEN [d |-> DictSet(acc.d, param_name,
                                     [DictGet(acc.d, param_name) EXCEPT
                                        !.value = IpcoreParamToKpmValue(param_val)]),
                       log |-> acc.log]
                 ELSE [d |-> acc.d,
                       log |-> Append(acc.log,
                                      Warn("param_not_found", param_name, ip_name))])

\* lines 211-214: the interfaces built before one with an invalid direction
\* raises; its index, or 0 when all are valid
FirstInvalidInterface(ifaces) ==
    LET bad == {i \in 1..Len(ifaces) : ~InterfaceDirectionValid(ifaces[i].direction)}
    IN  IF bad = {} THEN 0 ELSE CHOOSE i \in bad : \A j \in bad : i <= j

KpmInterfaces(ifaces, t, c) ==
    [i \in 1..Len(ifaces) |->
        KPMDataflowNodeInterface(ifaces[i].name, ifaces[i].direction, t, c + i - 1)]

\* the body of the loop of kpm_nodes_from_design_descr for one ip_name;
\* acc is [nodes, c, log, raised]
KpmNodeFromIp(ip_name, ips, parameters, spec, t, acc) ==
    LET ip_type == IpType(DictGet(ips, ip_name).file)
        found == GetSpecificationNodeByType(ip_type, spec)
        spec_node == found.node
        c1 == acc.c + Len(spec_node.properties)
        kpm_properties ==
            ApplyParameters(
                IF DictHas(parameters, ip_name) THEN DictGet(parameters, ip_name)
                                                ELSE <<>>,
                ip_name,
                [d |-> KpmPropertiesDict(spec_node.properties, t, acc.c, <<>>),
                 log |-> acc.log])
        bad == FirstInvalidInterface(spec_node.interfaces)
        c2 == c1 + Len(spec_node.interfaces)
    IN  IF ~found.found
        THEN [acc EXCEPT !.log = acc.log \o found.log]
        ELSE IF bad # 0
        THEN [acc EXCEPT !.c = c1 + bad - 1, !.log = kpm_properties.log,
                         !.raised = "ValueError"]
        ELSE [nodes |-> Append(acc.nodes,
                               KPMDataflowNode(ip_name, ip_type,
                                               DictValues(kpm_properties.d),
                                               KpmInterfaces(spec_node.interfaces, t, c1),
                                               t, c2)),
              c |-> c2 + 1,
              log |-> kpm_properties.log,
              raised |-> "none"]

RECURSIVE KpmNodesLoop(_, _, _, _, _, _)
KpmNodesLoop(names, ips, parameters, spec, t, acc) ==
    IF names = <<>> \/ acc.raised # "none" THEN acc
    ELSE KpmNodesLoop(Tail(names), ips, parameters, spec, t,
                      KpmNodeFromIp(Head(names), ips, parameters, spec, t, acc))

\* the two warnings about unsupported sections, lines 181-192
UnsupportedWarnings(design) ==
    (IF GetHierarchiesNames(design) # {}
     THEN <<Warn("hierarchies", "", "")>> ELSE <<>>)
    \o (IF GetInterconnectsNames(design) # {}
        THEN <<Warn("interconnects", "", "")>> ELSE <<>>)

KpmNodesFromDesignDescrAllNames(dd, spec, t, c) ==
    LET design == dd.design
        parameters == IF "parameters" \in design.keys THEN design.parameters ELSE <<>>
    IN  KpmNodesLoop(design.components, dd.ips, parameters, spec, t,
                     [nodes |-> <<>>, c |-> c, log |-> UnsupportedWarnings(design),
                      raised |-> "none"])

\* kpm_nodes_from_design_descr(design_descr, specification), the clock reading
\* t, __counter c: [nodes, c, log, raised]
KpmNodesFromDesignDescr(dd, spec, t, c) ==
    LET design == dd.design
        parameters == IF "parameters" \in design.keys THEN design.parameters ELSE <<>>
    IN  KpmNodesLoop(GetIpcoresNames(design), dd.ips, parameters, spec, t,
                     [nodes |-> <<>>, c |-> c, log |-> UnsupportedWarnings(design),
                      raised |-> "none"])

-----------------------------------------------------------------------------
(* Connections *)

GetDataflowInterfaceByNameFirst(name, node_name, nds) ==
    LET nat == {i \in 1..Len(nds) : nds[i].name = node_name}
        node == nds[CHOOSE i \in nat : \A j \in nat : i <= j]
    IN  IF nat = {} \/ node.interfaces = <<>>
        THEN [found |-> FALSE, iface |-> <<>>,
              log |-> <<Warn("node_not_found", node_name, "")>>]
        ELSE [found |-> TRUE, iface |-> node.interfaces[1], log |-> <<>>]

\* _get_dataflow_interface_by_name: the first interface called `name` of the
\* first node called `node_name`, or None with a warning
GetDataflowInterfaceByName(name, node_name, nds) ==
    LET nat == {i \in 1..Len(nds) : nds[i].name = node_name}
        node == nds[CHOOSE i \in nat : \A j \in nat : i <= j]
        iat == {i \in 1..Len(node.interfaces) : node.interfaces[i].name = name}
    IN  IF nat = {}
        THEN [found |-> FALSE, iface |-> <<>>,
              log |-> <<Warn("node_not_found", node_name, "")>>]
        ELSE IF iat = {}
        THEN [found |-> FALSE, iface |-> <<>>,
              log |-> <<Warn("interface_not_found", name, node_name)>>]
        ELSE [found |-> TRUE,
              iface |-> node.interfaces[CHOOSE i \in iat : \A j \in iat : i <= j],
              log |-> <<>>]

RECURSIVE FlattenPorts(_, _)
\* the inner loop of _get_flattened_connections for one ip_name
FlattenPorts(ip_name, items) ==
    IF items = <<>> THEN <<>>
    ELSE <<[ip_name |-> ip_name, port_iface_name |-> Head(items)[1],
            connection |-> Head(items)[2]]>>
         \o FlattenPorts(ip_name, Tail(items))

RECURSIVE FlattenSection(_)
FlattenSection(items) ==
    IF items = <<>> THEN <<>>
    ELSE FlattenPorts(Head(items)[1], Head(items)[2]) \o FlattenSection(Tail(items))

GetFlattenedConnectionsInterfacesFirst(dd) ==
    (IF "interfaces" \in dd.design.keys THEN FlattenSection(dd.design.interfaces)
     ELSE <<>>)
    \o (IF "ports" \in dd.design.keys THEN FlattenSection(dd.design.ports) ELSE <<>>)

\* _get_flattened_connections: the "ports" section, then "interfaces"
GetFlattenedConnections(dd) ==
    (IF "ports" \in dd.design.keys THEN FlattenSection(dd.design.ports) ELSE <<>>)
    \o (IF "interfaces" \in dd.design.keys THEN FlattenSection(dd.design.interfaces)
        ELSE <<>>)

\* _get_external_connections
GetExternalConnections(dd) ==
    LET keep(conn) == /\ conn.connection.t = "str"
                      /\ conn.ip_name \notin GetHierarchiesNames(dd.design)
        kept == SelectSeq(GetFlattenedConnections(dd), keep)
    IN  [i \in 1..Len(kept) |->
            [ip_name |-> kept[i].ip_name,
             port_iface_name |-> kept[i].port_iface_name,
             external_name |-> kept[i].connection.s]]

\* _get_ipcores_connections
GetIpcoresConnections(dd) ==
    LET IsIpcoreConnection(conn) ==
            /\ conn.connection.t = "list"
            /\ conn.ip_name \notin GetHierarchiesNames(dd.design)
            /\ conn.connection.s \notin GetHierarchiesNames(dd.design)
        kept == SelectSeq(GetFlattenedConnections(dd), IsIpcoreConnection)
    IN  [i \in 1..Len(kept) |->
            [ip_to_name |-> kept[i].ip_name,
             port_iface_to_name |-> kept[i].port_iface_name,
             ip_from_name |-> kept[i].connection.s,
             port_iface_from_name |-> kept[i].connection.s2]]

DirectionMismatchInoutAny(dir_from, dir_to) ==
    \/ (dir_from = KPM_DIR_OUTPUT /\ dir_to # KPM_DIR_INPUT)
    \/ (dir_from = KPM_DIR_INPUT /\ dir_to # KPM_DIR_OUTPUT)

\* the condition of line 330
DirectionMismatch(dir_from, dir_to) ==
    \/ (dir_from = KPM_DIR_OUTPUT /\ dir_to # KPM_DIR_INPUT)
    \/ (dir_from = KPM_DIR_INPUT /\ dir_to # KPM_DIR_OUTPUT)
    \/ (dir_from = KPM_DIR_INOUT /\ dir_to # KPM_DIR_INOUT)

CreateConnectionSwapped(kpm_iface_from, kpm_iface_to, t, c) ==
    IF DirectionMismatch(kpm_iface_from.direction, kpm_iface_to.direction)
    THEN [made |-> FALSE, conn |-> <<>>, c |-> c,
          log |-> <<Warn("direction_mismatch", kpm_iface_from.name, kpm_iface_to.name)>>]
    ELSE [made |-> TRUE,
          conn |-> KPMDataflowConnection(kpm_iface_to.id, kpm_iface_from.id, t, c),
          c |-> c + 1, log |-> <<>>]

\* _create_connection: a connection, or None with a warning
CreateConnection(kpm_iface_from, kpm_iface_to, t, c) ==
    IF DirectionMismatch(kpm_iface_from.direction, kpm_iface_to.direction)
    THEN [made |-> FALSE, conn |-> <<>>, c |-> c,
          log |-> <<Warn("direction_mismatch", kpm_iface_from.name, kpm_iface_to.name)>>]
    ELSE [made |-> TRUE,
          conn |-> KPMDataflowConnection(kpm_iface_from.id, kpm_iface_to.id, t, c),
          c |-> c + 1, log |-> <<>>]

\* the body of the loop of kpm_connections_from_design_descr; a None that
\* _create_connection returns is dropped by the final filter of line 371
KpmConnectionFromConn(conn, nds, t, acc) ==
    LET kpm_iface_from ==
            GetDataflowInterfaceByName(conn.port_iface_from_name, conn.ip_from_name, nds)
        kpm_iface_to ==
            GetDataflowInterfaceByName(conn.port_iface_to_name, conn.ip_to_name, nds)
        lookups == acc.log \o kpm_iface_from.log \o kpm_iface_to.log
        made == CreateConnection(kpm_iface_from.iface, kpm_iface_to.iface, t, acc.c)
    IN  IF kpm_iface_from.found /\ kpm_iface_to.found
        THEN [result |-> IF made.made THEN Append(acc.result, made.conn) ELSE acc.result,
              c |-> made.c,
              log |-> lookups \o made.log]
        ELSE [acc EXCEPT !.log = lookups]

RECURSIVE KpmConnectionsLoop(_, _, _, _)
KpmConnectionsLoop(conns, nds, t, acc) ==
    IF conns = <<>> THEN acc
    ELSE KpmConnectionsLoop(Tail(conns), nds, t,
                            KpmConnectionFromConn(Head(conns), nds, t, acc))

\* kpm_connections_from_design_descr(design_descr, nodes): [result, c, log]
KpmConnectionsFromDesignDescr(dd, nds, t, c) ==
    KpmConnectionsLoop(GetIpcoresConnections(dd), nds, t,
                       [result |-> <<>>, c |-> c, log |-> <<>>])

-----------------------------------------------------------------------------
(* External metanodes *)

RECURSIVE FlattenDirs(_, _)
FlattenDirs(conn_type, items) ==
    IF items = <<>> THEN <<>>
    ELSE [i \in 1..Len(Head(items)[2]) |->
             [conn_type |-> conn_type, dir |-> Head(items)[1],
              external_name |-> Head(items)[2][i]]]
         \o FlattenDirs(conn_type, Tail(items))

RECURSIVE FlattenExternal(_)
\* the three nested loops of lines 384-386, as the sequence of their bodies
FlattenExternal(items) ==
    IF items = <<>> THEN <<>>
    ELSE FlattenDirs(Head(items)[1], Head(items)[2]) \o FlattenExternal(Tail(items))

DirToMetanodeTypeSwapped ==
    <<<<"in", EXT_OUTPUT_NAME>>, <<"out", EXT_INPUT_NAME>>, <<"inout", EXT_INOUT_NAME>>>>

\* dir_to_metanode_type
DirToMetanodeType ==
    <<<<"in", EXT_INPUT_NAME>>, <<"out", EXT_OUTPUT_NAME>>, <<"inout", EXT_INOUT_NAME>>>>

RECURSIVE KpmMetanodesLoop(_, _, _)
\* acc is [metanodes, c, raised]; a dir that dir_to_metanode_type lacks is a
\* KeyError, a node name new_external_node refuses a ValueError
KpmMetanodesLoop(entries, t, acc) ==
    IF entries = <<>> \/ acc.raised # "none" THEN acc
    ELSE LET e == Head(entries)
         IN  KpmMetanodesLoop(
                 Tail(entries), t,
                 IF ~DictHas(DirToMetanodeType, e.dir)
                 THEN [acc EXCEPT !.raised = "KeyError"]
                 ELSE IF DictGet(DirToMetanodeType, e.dir) \notin EXT_NAMES
                 THEN [acc EXCEPT !.raised = "ValueError"]
                 ELSE [metanodes |->
                          Append(acc.metanodes,
                                 NewExternalNode(DictGet(DirToMetanodeType, e.dir),
                                                 e.external_name, t, acc.c)),
                       c |-> acc.c + 3,
                       raised |-> "none"])

\* kpm_metanodes_from_design_descr(design_descr): [metanodes, c, raised]
KpmMetanodesFromDesignDescr(dd, t, c) ==
    IF "external" \notin dd.keys
    THEN [metanodes |-> <<>>, c |-> c, raised |-> "none"]
    ELSE KpmMetanodesLoop(FlattenExternal(dd.external), t,
                          [metanodes |-> <<>>, c |-> c, raised |-> "none"])

\* kpm_common.get_metanode_property_value: the value of the node's property
GetMetanodePropertyValue(node_json) == node_json.properties[1].value

FindDataflowMetanodeByExternalNameLast(mnodes, external_name) ==
    LET at == {i \in 1..Len(mnodes) :
                  GetMetanodePropertyValue(NodeToJsonFormat(mnodes[i])) = PyStr(external_name)}
    IN  IF at = {}
        THEN [found |-> FALSE, node |-> <<>>,
              log |-> <<Warn("external_not_found", external_name, "")>>]
        ELSE [found |-> TRUE, node |-> mnodes[CHOOSE i \in at : \A j \in at : j <= i],
              log |-> <<>>]

\* _find_dataflow_metanode_by_external_name: the first metanode of that
\* property value, or None with a warning
FindDataflowMetanodeByExternalName(mnodes, external_name) ==
    LET at == {i \in 1..Len(mnodes) :
                  GetMetanodePropertyValue(NodeToJsonFormat(mnodes[i])) = PyStr(external_name)}
    IN  IF at = {}
        THEN [found |-> FALSE, node |-> <<>>,
              log |-> <<Warn("external_not_found", external_name, "")>>]
        ELSE [found |-> TRUE, node |-> mnodes[CHOOSE i \in at : \A j \in at : i <= j],
              log |-> <<>>]

\* the body of the loop of kpm_metanodes_connections_from_design_descr
KpmMetanodeConnectionFromConn(ext_conn, nds, mnodes, t, acc) ==
    LET kpm_interface ==
            GetDataflowInterfaceByName(ext_conn.port_iface_name, ext_conn.ip_name, nds)
        kpm_metanode ==
            FindDataflowMetanodeByExternalName(mnodes, ext_conn.external_name)
        lookups == acc.log \o kpm_interface.log \o kpm_metanode.log
        made == CreateConnection(kpm_interface.iface, kpm_metanode.node.interfaces[1],
                                 t, acc.c)
    IN  IF kpm_interface.found /\ kpm_metanode.found
        THEN [result |-> IF made.made THEN Append(acc.result, made.conn) ELSE acc.result,
              c |-> made.c,
              log |-> lookups \o made.log]
        ELSE [acc EXCEPT !.log = lookups]

RECURSIVE KpmMetanodesConnectionsLoop(_, _, _, _, _)
KpmMetanodesConnectionsLoop(conns, nds, mnodes, t, acc) ==
    IF conns = <<>> THEN acc
    ELSE KpmMetanodesConnectionsLoop(
             Tail(conns), nds, mnodes, t,
             KpmMetanodeConnectionFromConn(Head(conns), nds, mnodes, t, acc))

\* kpm_metanodes_connections_from_design_descr(design_descr, nodes, metanodes):
\* [result, c, log]
KpmMetanodesConnectionsFromDesignDescr(dd, nds, mnodes, t, c) ==
    KpmMetanodesConnectionsLoop(GetExternalConnections(dd), nds, mnodes, t,
                                [result |-> <<>>, c |-> c, log |-> <<>>])

-----------------------------------------------------------------------------
(* Assembly *)

KPM_VERSION == "20230824.9"

Render(seq, Op(_)) == [i \in 1..Len(seq) |-> Op(seq[i])]

DataflowDocumentNoMetanodes(nds, mnodes, conns, ext_conns, t, c) ==
    [graph |->
        [id |-> GenerateId(t, c),
         nodes |-> Render(nds, NodeToJsonFormat),
         connections |-> Render(conns, ConnectionToJsonFormat)
                         \o Render(ext_conns, ConnectionToJsonFormat),
         inputs |-> <<>>,
         outputs |-> <<>>],
     graphTemplateInstances |-> <<>>,
     version |-> KPM_VERSION]

DataflowDocumentExternalFirst(nds, mnodes, conns, ext_conns, t, c) ==
    [graph |->
        [id |-> GenerateId(t, c),
         nodes |-> Render(mnodes, NodeToJsonFormat) \o Render(nds, NodeToJsonFormat),
         connections |-> Render(ext_conns, ConnectionToJsonFormat)
                         \o Render(conns, ConnectionToJsonFormat),
         inputs |-> <<>>,
         outputs |-> <<>>],
     graphTemplateInstances |-> <<>>,
     version |-> KPM_VERSION]

\* the value kpm_dataflow_from_design_descr returns, lines 436-449
DataflowDocument(nds, mnodes, conns, ext_conns, t, c) ==
    [graph |->
        [id |-> GenerateId(t, c),
         nodes |-> Render(nds, NodeToJsonFormat) \o Render(mnodes, NodeToJsonFormat),
         connections |-> Render(conns, ConnectionToJsonFormat)
                         \o Render(ext_conns, ConnectionToJsonFormat),
         inputs |-> <<>>,
         outputs |-> <<>>],
     graphTemplateInstances |-> <<>>,
     version |-> KPM_VERSION]

\* nothing was returned (yet)
NoDocument == <<>>

-----------------------------------------------------------------------------
(* The inputs of the translation *)

\* the catalog: one node type with two properties and an interface of each
\* direction
CatalogA ==
    [nodes |->
        <<[type |-> "a",
           properties |-> <<[name |-> "width", default |-> PyStr("32")],
                            [name |-> "depth", default |-> PyStr("4")]>>,
           interfaces |-> <<[name |-> "i", direction |-> KPM_DIR_INPUT],
                            [name |-> "o", direction |-> KPM_DIR_OUTPUT],
                            [name |-> "io", direction |-> KPM_DIR_INOUT]>>]>>]

\* a catalog that declares the property "width" twice, and type "a" twice
CatalogDup ==
    [nodes |->
        <<[type |-> "a",
           properties |-> <<[name |-> "width", default |-> PyStr("32")],
                            [name |-> "depth", default |-> PyStr("4")],
                            [name |-> "width", default |-> PyStr("64")]>>,
           interfaces |-> <<[name |-> "i", direction |-> KPM_DIR_INPUT],
                            [name |-> "o", direction |-> KPM_DIR_OUTPUT],
                            [name |-> "io", direction |-> KPM_DIR_INOUT]>>],
          [type |-> "a",
           properties |-> <<>>,
           interfaces |-> <<>>]>>]

\* a catalog whose second interface has a direction that is none of the three
CatalogBadDir ==
    [nodes |->
        <<[type |-> "a",
           properties |-> <<[name |-> "width", default |-> PyStr("32")]>>,
           interfaces |-> <<[name |-> "i", direction |-> KPM_DIR_INPUT],
                            [name |-> "o", direction |-> "bidir"]>>]>>]

\* what the second instance, "x", is in the design
Roles == {"comp", "notype", "hier", "inter", "ghost"}

Sections == {"ports", "interfaces"}

\* one connection entry: design[sec][ip_name][port] = target
Entry(sec, ip_name, port, target) ==
    [sec |-> sec, ip_name |-> ip_name, port |-> port, target |-> target]

\* every single entry: the owner and the peer are "ip1" or "x", the interface
\* names are the catalog's and one it lacks, the boundary names are "a", "b"
\* and one that is never declared, and 0 is a constant tied to a port
AllEntries ==
    {Entry(sec, owner, port, target) :
        sec \in Sections, owner \in {"ip1", "x"}, port \in {"i", "o", "io", "zz"},
        target \in {PyList(peer, q) : peer \in {"ip1", "x"}, q \in {"i", "o", "io", "zz"}}
                   \cup {PyStr("a"), PyStr("b"), PyStr("nx"), PyInt(0)}}

\* the entries that designs of several entries are made of
ReducedEntries ==
    {Entry(sec, e[1], e[2], e[3]) :
        sec \in Sections,
        e \in {<<"ip1", "i", PyList("x", "o")>>,
               <<"x", "o", PyList("ip1", "i")>>,
               <<"ip1", "io", PyList("x", "io")>>,
               <<"ip1", "o", PyList("ip1", "o")>>,
               <<"ip1", "i", PyStr("a")>>,
               <<"x", "o", PyStr("a")>>}}

\* sequences of at most n elements of S
RECURSIVE SeqsUpTo(_, _)
SeqsUpTo(S, n) ==
    IF n = 0 THEN {<<>>}
    ELSE LET shorter == SeqsUpTo(S, n - 1)
         IN  shorter \cup {Append(q, e) : q \in shorter, e \in S}

RECURSIVE SectionDict(_, _)
\* design[sec] as loading the entries in order builds it
SectionDict(entries, sec) ==
    IF entries = <<>> THEN <<>>
    ELSE LET e == entries[Len(entries)]
             d == SectionDict(SubSeq(entries, 1, Len(entries) - 1), sec)
         IN  IF e.sec # sec THEN d
             ELSE DictSet(d, e.ip_name,
                          DictSet(IF DictHas(d, e.ip_name) THEN DictGet(d, e.ip_name)
                                                           ELSE <<>>,
                                  e.port, e.target))

\* one boundary signal: external[conn_type][dir] holds name
ExtSignals ==
    {[conn_type |-> "ports", dir |-> d, name |-> n] :
        d \in {"in", "out", "inout"}, n \in {"a", "b"}}
    \cup {[conn_type |-> "interfaces", dir |-> d, name |-> "a"] : d \in {"in", "out"}}

RECURSIVE ExternalDict(_)
\* the `external` section as loading the signals in order builds it
ExternalDict(signals) ==
    IF signals = <<>> THEN <<>>
    ELSE LET e == signals[Len(signals)]
             d == ExternalDict(SubSeq(signals, 1, Len(signals) - 1))
             byDir == IF DictHas(d, e.conn_type) THEN DictGet(d, e.conn_type) ELSE <<>>
             names == IF DictHas(byDir, e.dir) THEN DictGet(byDir, e.dir) ELSE <<>>
         IN  DictSet(d, e.conn_type, DictSet(byDir, e.dir, Append(names, e.name)))

\* the file of instance "x": of the catalog's type for a component, of a type
\* the catalog lacks otherwise
FileOfX(role) == IF role = "notype" THEN "src/m.v" ELSE "a.v"

\* the keys among `names` whose section is not empty
PresentKeys(rec, names) == {k \in names : rec[k] # <<>>}

\* the `design` section; a section that would be empty is left out
DesignSection(role, entries, parameters) ==
    LET d == [components |-> IF role = "ghost" THEN <<"ip1">> ELSE <<"ip1", "x">>,
              parameters |-> parameters,
              ports |-> SectionDict(entries, "ports"),
              interfaces |-> SectionDict(entries, "interfaces"),
              hierarchies |-> IF role = "hier" THEN <<"x">> ELSE <<>>,
              interconnects |-> IF role = "inter" THEN <<"x">> ELSE <<>>]
    IN  [components |-> d.components,
         parameters |-> d.parameters,
         ports |-> d.ports,
         interfaces |-> d.interfaces,
         hierarchies |-> d.hierarchies,
         interconnects |-> d.interconnects,
         keys |-> PresentKeys(d, {"parameters", "ports", "interfaces",
                                  "hierarchies", "interconnects"})]

\* a design description: instance "ip1" of type "a", instance "x" in the given
\* role, the connection entries, the boundary signals and the parameters
DesignDescr(role, entries, signals, parameters) ==
    [ips |-> IF role = "ghost"
             THEN <<<<"ip1", [file |-> "ips/a.yaml"]>>>>
             ELSE <<<<"ip1", [file |-> "ips/a.yaml"]>>,
                    <<"x", [file |-> FileOfX(role)]>>>>,
     design |-> DesignSection(role, entries, parameters),
     external |-> ExternalDict(signals),
     keys |-> {"ips", "design"} \cup (IF signals = <<>> THEN {} ELSE {"external"})]

\* the boundary signals of the designs that vary their connection entries
FixedSignals == <<[conn_type |-> "ports", dir |-> "in", name |-> "a"]>>

\* parameter values: strings, integers, sized literals, and a float
ParamInts == (0 - MaxParam)..MaxParam

ParamWidths == {0 - 1, 0, 8, MaxParam}

ParamValues ==
    {PyStr("8"), PyStr(""), PyOther}
    \cup {PyInt(n) : n \in ParamInts}
    \cup {PySized(v, w) : v \in ParamInts, w \in ParamWidths}

\* the values used where a design overrides several parameters
ReducedParamValues == {PyStr("8"), PyInt(8), PySized(10, 8), PyOther}

ParamNames == {"width", "depth", "nope"}

\* design.parameters: overrides for "ip1", or for an instance that is absent
ParameterDicts ==
    {<<<<"ip1", <<<<"width", v>>>>>>>> : v \in ParamValues}
    \cup {<<<<owner, <<<<n[1], v1>>, <<n[2], v2>>>>>>>> :
            owner \in {"ip1", "zz"},
            n \in {m \in ParamNames \X ParamNames : m[1] # m[2]},
            v1 \in ReducedParamValues, v2 \in ReducedParamValues}

\* the inputs: pairs of a design description and a catalog
Inputs ==
    \* several connection entries, "x" in every role
    {<<DesignDescr(role, entries, FixedSignals, <<>>), CatalogA>> :
        role \in Roles, entries \in SeqsUpTo(ReducedEntries, MaxEntries)}
    \* every single entry, "x" in every role
    \cup {<<DesignDescr(role, <<e>>, FixedSignals, <<>>), CatalogA>> :
            role \in Roles, e \in AllEntries}
    \* every choice of boundary signals against every boundary entry
    \cup {<<DesignDescr("comp", <<e>>, signals, <<>>), CatalogA>> :
            e \in {a \in AllEntries :
                      a.target.t = "str" /\ a.ip_name = "ip1" /\ a.sec = "ports"},
            signals \in SeqsUpTo(ExtSignals, MaxExt)}
    \* malformed inputs: a direction key `external` may not use, and a catalog
    \* with an invalid interface direction
    \cup {<<DesignDescr("comp", <<e>>,
                        signals \o <<[conn_type |-> "ports", dir |-> "bidir",
                                      name |-> "b"]>>,
                        <<>>),
            CatalogA>> :
            e \in {Entry("ports", "ip1", "i", PyStr("a"))},
            signals \in {<<>>, FixedSignals}}
    \cup {<<DesignDescr(role, <<>>, FixedSignals, <<>>), CatalogBadDir>> :
            role \in {"comp", "notype"}}
    \* parameter overrides, against both catalogs
    \cup {<<DesignDescr("notype", <<>>, <<>>, parameters), catalog>> :
            parameters \in ParameterDicts, catalog \in {CatalogA, CatalogDup}}

\* the clock reading of a translation
TranslationTime == 1699

\* IDGenerator.__counter as the class body sets it
InitialCounter == 0

-----------------------------------------------------------------------------
(* kpm_dataflow_from_design_descr, one action per statement *)

Init ==
    /\ counter = InitialCounter
    /\ issued = <<>>
    /\ pc = "start"
    /\ \E input \in Inputs :
         /\ design_descr = input[1]
         /\ specification = input[2]
    /\ now = TranslationTime
    /\ nodes = <<>>
    /\ metanodes = <<>>
    /\ connections = <<>>
    /\ ext_connections = <<>>
    /\ log = <<>>
    /\ raised = "none"
    /\ dataflow = NoDocument
    /\ threads = <<>>
    /\ rpc = <<>>
    /\ serdes = <<>>

\* line 432: nodes = kpm_nodes_from_design_descr(design_descr, specification)
BuildNodes ==
    /\ pc = "start"
    /\ LET r == KpmNodesFromDesignDescr(design_descr, specification, now, counter)
       IN  /\ nodes' = r.nodes
           /\ counter' = r.c
           /\ log' = log \o r.log
           /\ raised' = r.raised
           /\ pc' = IF r.raised = "none" THEN "nodes" ELSE "raised"
    /\ UNCHANGED <<rpc, serdes, threads, issued, design_descr, specification, now, metanodes, connections,
                   ext_connections, dataflow>>

\* line 433: metanodes = kpm_metanodes_from_design_descr(design_descr)
BuildMetanodes ==
    /\ pc = "nodes"
    /\ LET r == KpmMetanodesFromDesignDescr(design_descr, now, counter)
       IN  /\ metanodes' = r.metanodes
           /\ counter' = r.c
           /\ raised' = r.raised
           /\ pc' = IF r.raised = "none" THEN "metanodes" ELSE "raised"
    /\ UNCHANGED <<rpc, serdes, threads, issued, design_descr, specification, now, nodes, connections,
                   ext_connections, log, dataflow>>

\* line 434: connections = kpm_connections_from_design_descr(design_descr, nodes)
BuildConnections ==
    /\ pc = "metanodes"
    /\ LET r == KpmConnectionsFromDesignDescr(design_descr, nodes, now, counter)
       IN  /\ connections' = r.result
           /\ counter' = r.c
           /\ log' = log \o r.log
    /\ pc' = "connections"
    /\ UNCHANGED <<rpc, serdes, threads, issued, design_descr, specification, now, nodes, metanodes,
                   ext_connections, raised, dataflow>>

\* line 435: ext_connections = kpm_metanodes_connections_from_design_descr(...)
BuildExtConnections ==
    /\ pc = "connections"
    /\ LET r == KpmMetanodesConnectionsFromDesignDescr(design_descr, nodes, metanodes,
                                                        now, counter)
       IN  /\ ext_connections' = r.result
           /\ counter' = r.c
           /\ log' = log \o r.log
    /\ pc' = "ext_connections"
    /\ UNCHANGED <<rpc, serdes, threads, issued, design_descr, specification, now, nodes, metanodes,
                   connections, raised, dataflow>>

\* lines 436-449: the graph id is generated and the document returned
Assemble ==
    /\ pc = "ext_connections"
    /\ dataflow' = DataflowDocument(nodes, metanodes, connections, ext_connections,
                                    now, counter)
    /\ counter' = counter + 1
    /\ pc' = "done"
    /\ UNCHANGED <<rpc, serdes, threads, issued, design_descr, specification, now, nodes, metanodes,
                   connections, ext_connections, log, raised>>

Next ==
    \/ BuildNodes
    \/ BuildMetanodes
    \/ BuildConnections
    \/ BuildExtConnections
    \/ Assemble

Spec == Init /\ [][Next]_vars

\* kpm_dataflow_from_design_descr(design_descr, specification) as one
\* function of its arguments, the clock reading t and __counter c:
\* [raised, dataflow, log, c]
Translate(dd, spec, t, c) ==
    LET n == KpmNodesFromDesignDescr(dd, spec, t, c)
        m == KpmMetanodesFromDesignDescr(dd, t, n.c)
        k == KpmConnectionsFromDesignDescr(dd, n.nodes, t, m.c)
        x == KpmMetanodesConnectionsFromDesignDescr(dd, n.nodes, m.metanodes, t, k.c)
    IN  IF n.raised # "none"
        THEN [raised |-> n.raised, dataflow |-> NoDocument, log |-> n.log, c |-> n.c]
        ELSE IF m.raised # "none"
        THEN [raised |-> m.raised, dataflow |-> NoDocument, log |-> n.log, c |-> m.c]
        ELSE [raised |-> "none",
              dataflow |-> DataflowDocument(n.nodes, m.metanodes, k.result, x.result,
                                            t, x.c),
              log |-> n.log \o k.log \o x.log,
              c |-> x.c + 1]

-----------------------------------------------------------------------------
(* Vocabulary of the properties *)

\* the translation returned its document
Done == pc = "done"

\* the pairs of directions a connection may join
LegalPairs ==
    {<<KPM_DIR_OUTPUT, KPM_DIR_INPUT>>, <<KPM_DIR_INPUT, KPM_DIR_OUTPUT>>,
     <<KPM_DIR_INOUT, KPM_DIR_INOUT>>}

\* the interfaces of the nodes of a document, each with its node's name
DocInterfaces(doc) ==
    UNION {{[node |-> doc.graph.nodes[i].name,
             id |-> doc.graph.nodes[i].interfaces[j].id,
             name |-> doc.graph.nodes[i].interfaces[j].name,
             direction |-> doc.graph.nodes[i].interfaces[j].direction] :
               j \in 1..Len(doc.graph.nodes[i].interfaces)} :
           i \in 1..Len(doc.graph.nodes)}

\* the connection entries of a design description, as written in it
EntriesOf(dd) ==
    UNION {UNION {{Entry(sec, dd.design[sec][i][1], dd.design[sec][i][2][j][1],
                         dd.design[sec][i][2][j][2]) :
                      j \in 1..Len(dd.design[sec][i][2])} :
                  i \in 1..Len(dd.design[sec])} :
           sec \in Sections}

\* the instance names an entry mentions: its owner, and its peer if it has one
Mentions(e) == {e.ip_name} \cup (IF e.target.t = "list" THEN {e.target.s} ELSE {})

\* d without key k
DictDel(d, k) == LET keep(item) == item[1] # k IN SelectSeq(d, keep)

\* the design description without the entry design[sec][ip_name][port]
WithoutEntry(dd, e) ==
    LET section == dd.design[e.sec]
        owned == DictDel(DictGet(section, e.ip_name), e.port)
        left == IF owned = <<>> THEN DictDel(section, e.ip_name)
                ELSE DictSet(section, e.ip_name, owned)
    IN  [dd EXCEPT !.design =
            [dd.design EXCEPT ![e.sec] = left,
                              !.keys = IF left = <<>> THEN @ \ {e.sec} ELSE @]]

\* the number of warnings of a kind in a log
CountKind(lg, kind) == Cardinality({i \in 1..Len(lg) : lg[i].kind = kind})

-----------------------------------------------------------------------------
(* C1: in one single-threaded run all identifiers produced by generate_id  *)
(* are pairwise distinct, whatever the clock returns between the calls.    *)
C1_AllIdsDistinct ==
    \A i, j \in 1..Len(issued) : i # j => issued[i].id # issued[j].id

-----------------------------------------------------------------------------
\* the interfaces of the nodes built so far, each with its node's name
BuiltInterfaces(nds) ==
    UNION {{[node |-> nds[i].name,
             id |-> nds[i].interfaces[j].id,
             name |-> nds[i].interfaces[j].name,
             direction |-> nds[i].interfaces[j].direction] :
               j \in 1..Len(nds[i].interfaces)} :
           i \in 1..Len(nds)}

\* kpm_nodes_from_design_descr has returned
NodesBuilt == pc \in {"nodes", "metanodes", "connections", "ext_connections", "done"}

\* kpm_metanodes_from_design_descr has returned
MetanodesBuilt == pc \in {"metanodes", "connections", "ext_connections", "done"}

(* C2: every connection of the returned document, inter-node or boundary,  *)
(* joins two interfaces of the document whose (from, to) directions are    *)
(* (output, input), (input, output) or (inout, inout).                     *)
C2_DirectionLegality ==
    Done =>
        \A k \in 1..Len(dataflow.graph.connections) :
            LET conn == dataflow.graph.connections[k]
                ifs == DocInterfaces(dataflow)
            IN  /\ \E f \in ifs : f.id = conn.from
                /\ \E g \in ifs : g.id = conn.to
                /\ \A f, g \in ifs :
                      (f.id = conn.from /\ g.id = conn.to)
                          => <<f.direction, g.direction>> \in LegalPairs

\* a document with an inter-node connection and a boundary connection
C2_Witness ==
    /\ Done
    /\ Len(connections) = 1
    /\ Len(ext_connections) = 1
    /\ Len(dataflow.graph.connections) = 2

(* C3: for a design whose only entry is a peer reference that resolves on  *)
(* both sides, _create_connection yields exactly one connection from the   *)
(* peer's interface to the owner's when the directions are a legal pair,   *)
(* and otherwise no connection and exactly one direction-mismatch warning. *)
C3_CreateConnection ==
    pc = "connections" =>
        \A e \in EntriesOf(design_descr) :
            (EntriesOf(design_descr) = {e} /\ e.target.t = "list") =>
                \A f, g \in BuiltInterfaces(nodes) :
                    (/\ f.node = e.target.s /\ f.name = e.target.s2
                     /\ g.node = e.ip_name /\ g.name = e.port) =>
                        IF <<f.direction, g.direction>> \in LegalPairs
                        THEN /\ Len(connections) = 1
                             /\ connections[1].id_from = f.id
                             /\ connections[1].id_to = g.id
                             /\ CountKind(log, "direction_mismatch") = 0
                        ELSE /\ connections = <<>>
                             /\ CountKind(log, "direction_mismatch") = 1
                             /\ Warn("direction_mismatch", f.name, g.name) \in Range(log)

\* an inout interface offered to an input interface: dropped with one warning
C3_Witness ==
    /\ pc = "connections"
    /\ \E e \in EntriesOf(design_descr) :
          /\ EntriesOf(design_descr) = {e}
          /\ e.target.t = "list"
          /\ \E f, g \in BuiltInterfaces(nodes) :
                /\ f.node = e.target.s /\ f.name = e.target.s2
                /\ g.node = e.ip_name /\ g.name = e.port
                /\ f.direction = KPM_DIR_INOUT
                /\ g.direction = KPM_DIR_INPUT
    /\ connections = <<>>
    /\ CountKind(log, "direction_mismatch") = 1

\* the boundary signals of a design description, by their place in `external`
ExtPlaces(dd) ==
    IF "external" \notin dd.keys THEN {}
    ELSE UNION {UNION {{<<i, j, k>> : k \in 1..Len(dd.external[i][2][j][2])} :
                       j \in 1..Len(dd.external[i][2])} :
                i \in 1..Len(dd.external)}

ExtDir(dd, place) == dd.external[place[1]][2][place[2]][1]

ExtName(dd, place) == dd.external[place[1]][2][place[2]][2][place[3]]

\* the pseudo-node type and interface direction of a declared direction
PseudoType(dir) ==
    CASE dir = "out" -> EXT_OUTPUT_NAME
      [] dir = "in" -> EXT_INPUT_NAME
      [] dir = "inout" -> EXT_INOUT_NAME

PseudoDirection(dir) ==
    CASE dir = "out" -> KPM_DIR_INPUT
      [] dir = "in" -> KPM_DIR_OUTPUT
      [] dir = "inout" -> KPM_DIR_INOUT

(* C4: every pseudo-node has exactly one property, whose value is the      *)
(* boundary signal's name, and exactly one interface, of direction input   *)
(* for an `out` signal, output for `in` and inout for `inout`; and there   *)
(* is exactly one pseudo-node per entry of the `external` section.         *)
C4_PseudoNodeShape ==
    MetanodesBuilt =>
        /\ Len(metanodes) = Cardinality(ExtPlaces(design_descr))
        /\ \A k \in 1..Len(metanodes) :
              /\ Len(metanodes[k].properties) = 1
              /\ Len(metanodes[k].interfaces) = 1
        /\ \A place \in ExtPlaces(design_descr) :
              LET dir == ExtDir(design_descr, place)
                  name == ExtName(design_descr, place)
                  Same(q) == /\ ExtDir(design_descr, q) = dir
                             /\ ExtName(design_descr, q) = name
                  Built(k) == /\ metanodes[k].type = PseudoType(dir)
                              /\ metanodes[k].properties[1].value = PyStr(name)
              IN  /\ Cardinality({k \in 1..Len(metanodes) : Built(k)})
                        = Cardinality({q \in ExtPlaces(design_descr) : Same(q)})
                  /\ \A k \in 1..Len(metanodes) :
                        Built(k) =>
                            metanodes[k].interfaces[1].direction = PseudoDirection(dir)

\* two pseudo-nodes: one of an `out` signal, one of an `inout` signal
C4_Witness ==
    /\ pc = "metanodes"
    /\ Len(metanodes) = 2
    /\ metanodes[1].type = EXT_OUTPUT_NAME
    /\ metanodes[1].interfaces[1].direction = KPM_DIR_INPUT
    /\ metanodes[2].type = EXT_INOUT_NAME

\* the names listed in design.hierarchies or design.interconnects
UnsupportedNames(dd) ==
    Range(dd.design.hierarchies) \cup Range(dd.design.interconnects)

(* C5: for every name in design.hierarchies or design.interconnects, the   *)
(* document has no node of that name and no connection with an endpoint on *)
(* such an instance: every connection joins interfaces of other nodes, and *)
(* the entries that mention the name as owner or peer add no connection.   *)
C5_OmissionSafety ==
    Done =>
        \A name \in UnsupportedNames(design_descr) :
            /\ \A i \in 1..Len(dataflow.graph.nodes) :
                  dataflow.graph.nodes[i].name # name
            /\ \A k \in 1..Len(dataflow.graph.connections) :
                  \A f \in DocInterfaces(dataflow) :
                      f.id \in {dataflow.graph.connections[k].from,
                                dataflow.graph.connections[k].to}
                          => f.node # name
            /\ Len(dataflow.graph.connections)
                  <= Cardinality({e \in EntriesOf(design_descr) :
                                     name \notin Mentions(e)})

\* "x" is an interconnect named as the peer of an entry, or a hierarchy that
\* owns a boundary entry
C5_Witness ==
    /\ Done
    /\ \E e \in EntriesOf(design_descr) :
          \/ /\ "x" \in Range(design_descr.design.interconnects)
             /\ e.target = PyList("x", "o")
             /\ e.ip_name = "ip1"
          \/ /\ "x" \in Range(design_descr.design.hierarchies)
             /\ e.target = PyStr("a")
             /\ e.ip_name = "x"
    /\ Len(dataflow.graph.connections) = 1

\* the instance has a node with an interface of that name
HasInterface(nds, instance, name) ==
    \E f \in BuiltInterfaces(nds) : f.node = instance /\ f.name = name

\* an entry, not one of a hierarchy, that names an instance without a node or
\* an interface name the instance's node lacks
Dangling(dd, nds, e) ==
    /\ e.target.t \in {"list", "str"}
    /\ Mentions(e) \cap Range(dd.design.hierarchies) = {}
    /\ \/ ~HasInterface(nds, e.ip_name, e.port)
       \/ e.target.t = "list" /\ ~HasInterface(nds, e.target.s, e.target.s2)

CatalogTypes(spec) == {spec.nodes[i].type : i \in 1..Len(spec.nodes)}

\* the translated instances whose type the catalog lacks
MissingTypeNames(dd, spec) ==
    {name \in Range(GetIpcoresNames(dd.design)) :
        IpType(DictGet(dd.ips, name).file) \notin CatalogTypes(spec)}

\* the catalog and the `external` section are of the documented shape
WellFormed(dd, spec) ==
    /\ \A i \in 1..Len(spec.nodes) :
          \A j \in 1..Len(spec.nodes[i].interfaces) :
              spec.nodes[i].interfaces[j].direction \in KPM_DIRS
    /\ \A place \in ExtPlaces(dd) : ExtDir(dd, place) \in {"in", "out", "inout"}

(* C7: an instance whose type the catalog lacks gets a warning and no node *)
(* at all, the other instances get their nodes, and the translation of a   *)
(* well-formed input does not raise: entries naming the omitted instance   *)
(* are dropped.                                                            *)
C7_MissingTypeOmitted ==
    /\ (pc = "raised" => ~WellFormed(design_descr, specification))
    /\ NodesBuilt =>
          /\ \A name \in MissingTypeNames(design_descr, specification) :
                /\ \A i \in 1..Len(nodes) : nodes[i].name # name
                /\ Warn("type_not_found", IpType(DictGet(design_descr.ips, name).file), "")
                      \in Range(log)
          /\ \A name \in Range(GetIpcoresNames(design_descr.design))
                          \ MissingTypeNames(design_descr, specification) :
                \E i \in 1..Len(nodes) :
                    /\ nodes[i].name = name
                    /\ nodes[i].type = IpType(DictGet(design_descr.ips, name).file)
                    /\ Len(nodes[i].interfaces) > 0
    /\ Done =>
          \A name \in MissingTypeNames(design_descr, specification) :
              /\ \A i \in 1..Len(dataflow.graph.nodes) :
                    dataflow.graph.nodes[i].name # name
              /\ Len(dataflow.graph.connections)
                    <= Cardinality({e \in EntriesOf(design_descr) :
                                       name \notin Mentions(e)})

\* "x" is of a type the catalog lacks and an entry names it; "ip1" has its node
C7_Witness ==
    /\ Done
    /\ MissingTypeNames(design_descr, specification) = {"x"}
    /\ \E e \in EntriesOf(design_descr) : "x" \in Mentions(e)
    /\ Len(nodes) = 1
    /\ nodes[1].name = "ip1"
    /\ CountKind(log, "type_not_found") = 1
    /\ CountKind(log, "node_not_found") >= 1

\* the overrides the design supplies for an instance
OverridesOf(dd, name) ==
    IF "parameters" \in dd.design.keys /\ DictHas(dd.design.parameters, name)
    THEN DictGet(dd.design.parameters, name)
    ELSE <<>>

\* the catalog template of a node
TemplateOf(spec, node) ==
    spec.nodes[CHOOSE i \in 1..Len(spec.nodes) :
                  /\ spec.nodes[i].type = node.type
                  /\ \A j \in 1..(i - 1) : spec.nodes[j].type # node.type]

(* C8: in every component node, a property whose name an override matches  *)
(* has the display string of that override as its value, a property no     *)
(* override matches keeps a catalog default, and an override that matches  *)
(* no property adds one warning and nothing else; width=8 over the default *)
(* "32" gives "8".                                                         *)
C8_ParameterOverrides ==
    NodesBuilt =>
        /\ \A i \in 1..Len(nodes) :
              LET overrides == OverridesOf(design_descr, nodes[i].name)
                  declared == TemplateOf(specification, nodes[i]).properties
                  names == {nodes[i].properties[j].name :
                               j \in 1..Len(nodes[i].properties)}
              IN  /\ names = {declared[j].name : j \in 1..Len(declared)}
                  /\ Len(nodes[i].properties) = Cardinality(names)
                  /\ \A j \in 1..Len(nodes[i].properties) :
                        LET prop == nodes[i].properties[j]
                        IN  IF DictHas(overrides, prop.name)
                            THEN prop.value
                                    = IpcoreParamToKpmValue(DictGet(overrides, prop.name))
                            ELSE \E d \in 1..Len(declared) :
                                    /\ declared[d].name = prop.name
                                    /\ declared[d].default = prop.value
                  /\ \A j \in 1..Len(nodes[i].properties) :
                        (/\ nodes[i].properties[j].name = "width"
                         /\ DictHas(overrides, "width")
                         /\ DictGet(overrides, "width") = PyInt(8))
                            => nodes[i].properties[j].value = PyStr("8")
                  /\ \A o \in 1..Len(overrides) :
                        overrides[o][1] \notin names
                            => Warn("param_not_found", overrides[o][1], nodes[i].name)
                                  \in Range(log)
        /\ CountKind(log, "param_not_found")
              = Cardinality({<<i, o>> \in (1..Len(nodes)) \X (1..2) :
                    /\ o <= Len(OverridesOf(design_descr, nodes[i].name))
                    /\ \A j \in 1..Len(nodes[i].properties) :
                          nodes[i].properties[j].name
                              # OverridesOf(design_descr, nodes[i].name)[o][1]})

\* width=8 replaces "32", depth keeps "4", and an unknown name is reported
C8_Witness ==
    /\ pc = "nodes"
    /\ specification = CatalogA
    /\ OverridesOf(design_descr, "ip1") = <<<<"width", PyInt(8)>>, <<"nope", PyInt(8)>>>>
    /\ Len(nodes) = 1
    /\ nodes[1].properties[1].value = PyStr("8")
    /\ nodes[1].properties[2].value = PyStr("4")
    /\ log = <<Warn("param_not_found", "nope", "ip1"), Warn("type_not_found", "m", "")>>

\* every override of the design is a string, an integer or a sized literal
OverridesSupported(dd) ==
    \A i \in 1..Len(dd.design.parameters) :
        \A o \in 1..Len(dd.design.parameters[i][2]) :
            dd.design.parameters[i][2][o][2].t \in {"str", "int", "dict"}

HexDigitsOf(v) == IF v < 0 THEN "-" \o NatDigits(0 - v, 16) ELSE NatDigits(v, 16)

(* C10: a sized literal {value: v, width: w} renders as the decimal digits *)
(* of w, then 'h, then the hexadecimal digits of v without 0x; an integer  *)
(* renders as its decimal digits and a string unchanged.                   *)
C10_SizedLiteralRendering ==
    NodesBuilt =>
        \A i \in 1..Len(nodes) :
            \A j \in 1..Len(nodes[i].properties) :
                LET prop == nodes[i].properties[j]
                    overrides == OverridesOf(design_descr, nodes[i].name)
                    param == DictGet(overrides, prop.name)
                IN  DictHas(overrides, prop.name) =>
                        /\ param.t = "dict" =>
                              prop.value = PyStr(ToString(param.w) \o "'h"
                                                 \o HexDigitsOf(param.n))
                        /\ param.t = "int" => prop.value = PyStr(ToString(param.n))
                        /\ param.t = "str" => prop.value = param

(* C11: every component node has exactly one property per property its     *)
(* catalog template declares and exactly one interface per declared        *)
(* interface, in declaration order with the declared names and directions, *)
(* also for a template that declares one property name more than once.     *)
C11_TemplateShape ==
    NodesBuilt =>
        \A i \in 1..Len(nodes) :
            LET template == TemplateOf(specification, nodes[i])
            IN  /\ Len(nodes[i].properties) = Len(template.properties)
                /\ \A j \in 1..Len(nodes[i].properties) :
                      j <= Len(template.properties)
                          => nodes[i].properties[j].name = template.properties[j].name
                /\ Len(nodes[i].interfaces) = Len(template.interfaces)
                /\ \A j \in 1..Len(nodes[i].interfaces) :
                      j <= Len(template.interfaces) =>
                          /\ nodes[i].interfaces[j].name = template.interfaces[j].name
                          /\ nodes[i].interfaces[j].direction
                                = template.interfaces[j].direction

\* the entry is not one of a hierarchy, finds its interfaces (for a string
\* target: the first pseudo-node of that value), and joins a legal pair
Resolves(dd, nds, mnodes, e) ==
    /\ e.target.t \in {"list", "str"}
    /\ Mentions(e) \cap Range(dd.design.hierarchies) = {}
    /\ \E g \in BuiltInterfaces(nds) :
          /\ g.node = e.ip_name
          /\ g.name = e.port
          /\ \/ /\ e.target.t = "list"
                /\ \E f \in BuiltInterfaces(nds) :
                      /\ f.node = e.target.s
                      /\ f.name = e.target.s2
                      /\ <<f.direction, g.direction>> \in LegalPairs
             \/ /\ e.target.t = "str"
                /\ \E k \in 1..Len(mnodes) :
                      /\ mnodes[k].properties[1].value = PyStr(e.target.s)
                      /\ \A j \in 1..(k - 1) :
                            mnodes[j].properties[1].value # PyStr(e.target.s)
                      /\ <<g.direction, mnodes[k].interfaces[1].direction>>
                            \in LegalPairs

(* C12: on a catalog and an `external` section of the documented shape the *)
(* translation returns a document and never raises, whatever references    *)
(* of the design are unresolvable and whether or not hierarchies or        *)
(* interconnects are present; the document has a node for every instance   *)
(* whose type the catalog has, every pseudo-node, every property of the    *)
(* templates, and a connection for every entry that resolves.              *)
C12_LocalRecovery ==
    /\ WellFormed(design_descr, specification) =>
          /\ pc # "raised"
          /\ raised = "none"
          /\ Translate(design_descr, specification, now, InitialCounter).raised = "none"
    /\ Done =>
          /\ Len(dataflow.graph.nodes)
                = Cardinality(Range(GetIpcoresNames(design_descr.design))
                                 \ MissingTypeNames(design_descr, specification))
                  + Cardinality(ExtPlaces(design_descr))
          /\ Len(dataflow.graph.connections)
                = Cardinality({e \in EntriesOf(design_descr) :
                                  Resolves(design_descr, nodes, metanodes, e)})
          /\ \A i \in 1..Len(nodes) :
                {nodes[i].properties[j].name : j \in 1..Len(nodes[i].properties)}
                    = {TemplateOf(specification, nodes[i]).properties[j].name :
                          j \in 1..Len(TemplateOf(specification, nodes[i]).properties)}

\* a document returned although a type, an interface name and a boundary
\* signal are all missing
C12_Witness ==
    /\ Done
    /\ CountKind(log, "type_not_found") = 1
    /\ CountKind(log, "interface_not_found") = 1
    /\ CountKind(log, "external_not_found") = 1
    /\ Len(dataflow.graph.nodes) = 2
    /\ dataflow.graph.connections = <<>>

\* a document returned with one override dropped and the other applied
C12_WitnessOverride ==
    /\ Done
    /\ CountKind(log, "param_not_found") = 1
    /\ Len(dataflow.graph.nodes) = 1
    /\ Len(dataflow.graph.nodes[1].properties) = 2

-----------------------------------------------------------------------------
(* The constructors of the graph entities, called on their own *)

\* calls followed in the specification of the constructors
MaxCalls == 2

\* directions, names, values and pseudo-node types handed to the constructors
DirectionArgs == KPM_DIRS \cup {"bidir", ""}

NameArgs == {"clk", ""}

ValueArgs == {PyStr("8"), PyInt(8), PyNone}

IdArgs == {"ni_16990", ""}

NodeNameArgs == EXT_NAMES \cup {"EXT_BIDIR", "a"}

\* one call: the constructor, its arguments, the exception it raised or
\* "none", __counter before and after, and the entity it returned, if any
Call(op, a, b, exc, before, after, made) ==
    [op |-> op, a |-> a, b |-> b, raised |-> exc, before |-> before,
     after |-> after, made |-> made]

InterfaceCallUnchecked(op, name, direction, t, c) ==
    Call(op, name, direction, "none", c, c + 1,
         <<KPMDataflowNodeInterface(name, direction, t, c)>>)

\* KPMDataflowNodeInterface(name, direction): lines 43-48 raise before an id
\* is generated
InterfaceCall(op, name, direction, t, c) ==
    IF InterfaceDirectionValid(direction)
    THEN Call(op, name, direction, "none", c, c + 1,
              <<KPMDataflowNodeInterface(name, direction, t, c)>>)
    ELSE Call(op, name, direction, "ValueError", c, c, <<>>)

NewExternalNodeCallUnchecked(node_name, property_name, t, c) ==
    Call("new_external_node", node_name, property_name, "none", c, c + 3,
         <<NewExternalNode(node_name, property_name, t, c)>>)

\* KPMDataflowNode.new_external_node(node_name, property_name): lines 93-94
\* raise before anything is constructed
NewExternalNodeCall(node_name, property_name, t, c) ==
    IF node_name \in EXT_NAMES
    THEN Call("new_external_node", node_name, property_name, "none", c, c + 3,
              <<NewExternalNode(node_name, property_name, t, c)>>)
    ELSE Call("new_external_node", node_name, property_name, "ValueError", c, c, <<>>)

InitCalls ==
    /\ counter = InitialCounter
    /\ issued = <<>>
    /\ pc = "calls"
    /\ design_descr = DesignDescr("ghost", <<>>, <<>>, <<>>)
    /\ specification = CatalogA
    /\ now = TranslationTime
    /\ nodes = <<>>
    /\ metanodes = <<>>
    /\ connections = <<>>
    /\ ext_connections = <<>>
    /\ log = <<>>
    /\ raised = "none"
    /\ dataflow = NoDocument
    /\ threads = <<>>
    /\ rpc = <<>>
    /\ serdes = <<>>

\* the caller sees the call's outcome and goes on
Returns(call) ==
    /\ pc = "calls"
    /\ Len(issued) < MaxCalls
    /\ issued' = Append(issued, call)
    /\ counter' = call.after
    /\ raised' = call.raised
    /\ UNCHANGED <<rpc, serdes, threads, pc, design_descr, specification, now, nodes, metanodes,
                   connections, ext_connections, log, dataflow>>

ConstructInterface ==
    \E name \in NameArgs, direction \in DirectionArgs :
        Returns(InterfaceCall("interface", name, direction, now, counter))

NewExternalInterface ==
    \E direction \in DirectionArgs :
        Returns(InterfaceCall("new_external_interface", EXT_IFACE_NAME, direction,
                              now, counter))

ConstructProperty ==
    \E name \in NameArgs, value \in ValueArgs :
        Returns(Call("property", name, value, "none", counter, counter + 1,
                     <<KPMDataflowNodeProperty(name, value, now, counter)>>))

ConstructNode ==
    \E name \in NameArgs, type \in NameArgs :
        Returns(Call("node", name, type, "none", counter, counter + 1,
                     <<KPMDataflowNode(name, type, <<>>, <<>>, now, counter)>>))

ConstructConnection ==
    \E id_from \in IdArgs, id_to \in IdArgs :
        Returns(Call("connection", id_from, id_to, "none", counter, counter + 1,
                     <<KPMDataflowConnection(id_from, id_to, now, counter)>>))

CallNewExternalNode ==
    \E node_name \in NodeNameArgs :
        Returns(NewExternalNodeCall(node_name, "a", now, counter))

NextCalls ==
    \/ ConstructInterface
    \/ NewExternalInterface
    \/ ConstructProperty
    \/ ConstructNode
    \/ ConstructConnection
    \/ CallNewExternalNode

\* the constructors called on their own, or one translation
InitEither == Init \/ InitCalls

SpecCalls == InitEither /\ [][Next \/ NextCalls]_vars

\* the `external` section uses a direction key other than in, out and inout
BadExternalDirection(dd) ==
    \E place \in ExtPlaces(dd) : ExtDir(dd, place) \notin {"in", "out", "inout"}

(* C13: new_external_node called with a type that is none of the three     *)
(* boundary tags raises and constructs nothing (no id is taken), and the   *)
(* translation of a design whose `external` section uses a direction key   *)
(* other than in, out and inout raises and returns no document.            *)
C13_StructuralErrors ==
    /\ pc = "calls" =>
          \A k \in 1..Len(issued) :
              (/\ issued[k].op = "new_external_node"
               /\ issued[k].a \notin {EXT_OUTPUT_NAME, EXT_INPUT_NAME, EXT_INOUT_NAME}) =>
                  /\ issued[k].raised = "ValueError"
                  /\ issued[k].after = issued[k].before
                  /\ issued[k].made = <<>>
    /\ BadExternalDirection(design_descr) =>
          /\ ~MetanodesBuilt
          /\ pc = "raised" => raised = "KeyError"
          /\ Translate(design_descr, specification, now, InitialCounter).raised
                = "KeyError"

\* new_external_node refused a type after a constructor had taken an id
C13_Witness ==
    /\ pc = "calls"
    /\ Len(issued) = 2
    /\ issued[1].raised = "none"
    /\ issued[2].op = "new_external_node"
    /\ issued[2].a = "EXT_BIDIR"
    /\ issued[2].raised = "ValueError"
    /\ counter = issued[1].after

\* a translation that built its component node and one pseudo-node, met the
\* direction key "bidir" and raised
C13_WitnessTranslation ==
    /\ pc = "raised"
    /\ raised = "KeyError"
    /\ BadExternalDirection(design_descr)
    /\ Len(nodes) = 2
    /\ counter = 15

-----------------------------------------------------------------------------
(* generate_id called by several threads on the shared generator *)

\* threads that share the generator
MaxThreads == 2

\* generate_id calls of each thread
MaxThreadCalls == 2

Threads == 1..MaxThreads

\* the millisecond clock during the calls: two readings of equal length
ThreadClock == {TranslationTime, TranslationTime + 1}

InitThreads ==
    /\ counter = InitialCounter
    /\ issued = <<>>
    /\ pc = "threads"
    /\ design_descr = <<>>
    /\ specification = <<>>
    /\ now = TranslationTime
    /\ nodes = <<>>
    /\ metanodes = <<>>
    /\ connections = <<>>
    /\ ext_connections = <<>>
    /\ log = <<>>
    /\ raised = "none"
    /\ dataflow = <<>>
    /\ threads = [i \in Threads |->
                    [pc |-> "line31", t |-> 0, c |-> 0, loaded |-> 0, calls |-> 0]]
    /\ serdes = <<>>
    /\ rpc = <<>>

\* line 31: the clock and __counter are read and the result is built
ReadCounter(i) ==
    /\ pc = "threads"
    /\ threads[i].pc = "line31"
    /\ threads[i].calls < MaxThreadCalls
    /\ \E t \in ThreadClock :
          threads' = [threads EXCEPT ![i].pc = "line32_load", ![i].t = t,
                                     ![i].c = counter]
    /\ UNCHANGED <<counter, issued, transVars, serdes, rpc>>

\* line 32, first half: __counter is read again
LoadCounter(i) ==
    /\ pc = "threads"
    /\ threads[i].pc = "line32_load"
    /\ threads' = [threads EXCEPT ![i].pc = "line32_store", ![i].loaded = counter]
    /\ UNCHANGED <<counter, issued, transVars, serdes, rpc>>

\* line 32, second half, and line 33: the sum is stored and the result returned
StoreCounter(i) ==
    /\ pc = "threads"
    /\ threads[i].pc = "line32_store"
    /\ counter' = threads[i].loaded + 1
    /\ issued' = Append(issued, [t |-> threads[i].t, c |-> threads[i].c,
                                 id |-> GenerateId(threads[i].t, threads[i].c)])
    /\ threads' = [threads EXCEPT ![i].pc = "line31", ![i].calls = @ + 1]
    /\ UNCHANGED <<transVars, serdes, rpc>>

NextThreads ==
    \E i \in Threads :
        \/ ReadCounter(i)
        \/ LoadCounter(i)
        \/ StoreCounter(i)

SpecThreads == InitThreads /\ [][NextThreads]_vars

\* every call of every thread has returned
ThreadsDone == pc = "threads" /\ \A i \in Threads : threads[i].calls = MaxThreadCalls

(* C14: when several threads call generate_id on the shared generator, no   *)
(* interleaving lets two calls return the same identifier, and once all    *)
(* calls have returned the counter has grown by exactly their number.      *)
C14_SerializedCounter ==
    pc = "threads" =>
        /\ \A i, j \in 1..Len(issued) : i # j => issued[i].id # issued[j].id
        /\ ThreadsDone => counter = InitialCounter + MaxThreads * MaxThreadCalls

MatchingExternalDir(direction) ==
    CASE direction = KPM_DIR_INPUT -> "in"
      [] direction = KPM_DIR_OUTPUT -> "out"
      [] direction = KPM_DIR_INOUT -> "inout"

\* the kinds of warning a connection entry can cause
EntryWarnings ==
    {"node_not_found", "interface_not_found", "external_not_found", "direction_mismatch"}

\* the connections of a document from one interface id to another
Joining(doc, id_from, id_to) ==
    {k \in 1..Len(doc.graph.connections) :
        /\ doc.graph.connections[k].from = id_from
        /\ doc.graph.connections[k].to = id_to}

C16_WitnessOut ==
    /\ Done
    /\ EntriesOf(design_descr) = {Entry("ports", "ip1", "o", PyStr("b"))}
    /\ Len(metanodes) = 2
    /\ metanodes[2].type = EXT_OUTPUT_NAME
    /\ metanodes[2].properties[1].value = PyStr("b")
    /\ Len(dataflow.graph.connections) = 1
    /\ dataflow.graph.connections[1].to = metanodes[2].interfaces[1].id

\* one interface wired to one boundary signal under both sections
C16_WitnessTwice ==
    /\ Done
    /\ \E g \in BuiltInterfaces(nodes) :
          Cardinality(Joining(dataflow, g.id, metanodes[1].interfaces[1].id)) = 2

\* an inout interface wired to an `inout` signal
C16_WitnessInout ==
    /\ Done
    /\ \E g \in BuiltInterfaces(nodes) :
          /\ g.direction = KPM_DIR_INOUT
          /\ \E m \in 1..Len(metanodes) :
                /\ metanodes[m].type = EXT_INOUT_NAME
                /\ Joining(dataflow, g.id, metanodes[m].interfaces[1].id) # {}

\* the generated part of every id of a document but the graph's own
GeneratedIds(doc) ==
    UNION {{StrFrom(doc.graph.nodes[i].id, 5)}
           \cup {StrFrom(doc.graph.nodes[i].interfaces[j].id, 3) :
                    j \in 1..Len(doc.graph.nodes[i].interfaces)}
           \cup {doc.graph.nodes[i].properties[j].id :
                    j \in 1..Len(doc.graph.nodes[i].properties)} :
           i \in 1..Len(doc.graph.nodes)}
    \cup {doc.graph.connections[k].id : k \in 1..Len(doc.graph.connections)}

(* C17: the node list of the document is the component nodes followed by   *)
(* the pseudo-nodes and its connection list the inter-node connections     *)
(* followed by the boundary connections, each in construction order;       *)
(* `inputs`, `outputs` and `graphTemplateInstances` are empty; and the     *)
(* graph id is generated after every other id of the run.                  *)
C17_DocumentLayout ==
    Done =>
        /\ Len(dataflow.graph.nodes) = Len(nodes) + Len(metanodes)
        /\ \A i \in 1..Len(nodes) :
              /\ dataflow.graph.nodes[i].id = nodes[i].id
              /\ dataflow.graph.nodes[i].name = nodes[i].name
              /\ dataflow.graph.nodes[i].type \notin EXT_NAMES
        /\ \A i \in 1..Len(metanodes) :
              /\ dataflow.graph.nodes[Len(nodes) + i].id = metanodes[i].id
              /\ dataflow.graph.nodes[Len(nodes) + i].type \in EXT_NAMES
        /\ Len(dataflow.graph.connections) = Len(connections) + Len(ext_connections)
        /\ \A k \in 1..Len(connections) :
              /\ dataflow.graph.connections[k].id = connections[k].id
              /\ dataflow.graph.connections[k].from = connections[k].id_from
              /\ dataflow.graph.connections[k].to = connections[k].id_to
        /\ \A k \in 1..Len(ext_connections) :
              /\ dataflow.graph.connections[Len(connections) + k].id
                    = ext_connections[k].id
              /\ dataflow.graph.connections[Len(connections) + k].from
                    = ext_connections[k].id_from
              /\ dataflow.graph.connections[Len(connections) + k].to
                    = ext_connections[k].id_to
        /\ dataflow.graph.inputs = <<>>
        /\ dataflow.graph.outputs = <<>>
        /\ dataflow.graphTemplateInstances = <<>>
        /\ dataflow.graph.id = ToString(now) \o ToString(counter - 1)
        /\ \A id \in GeneratedIds(dataflow) :
              \E c \in InitialCounter..(counter - 2) :
                  id = ToString(now) \o ToString(c)

\* two component nodes, then a pseudo-node; an inter-node connection, then a
\* boundary connection; the graph id is the eighteenth id of the run
C17_Witness ==
    /\ Done
    /\ Len(nodes) = 2
    /\ Len(metanodes) = 1
    /\ Len(connections) = 1
    /\ Len(ext_connections) = 1
    /\ dataflow.graph.nodes[3].type = EXT_INPUT_NAME
    /\ dataflow.graph.connections[2].to = metanodes[1].interfaces[1].id
    /\ dataflow.graph.id = "169917"

\* the places in `metanodes` of the pseudo-nodes whose property value is S
PseudoNodesOf(mnodes, S) ==
    {m \in 1..Len(mnodes) : mnodes[m].properties[1].value = PyStr(S)}

(* C18: for an entry whose target is a string S and whose owner is not a   *)
(* hierarchy, the pseudo-node is the first one in construction order whose *)
(* property value is S, also when several boundary signals are called S;   *)
(* the component's interface is passed as `from` and the pseudo-node's     *)
(* only interface as `to`; and when no pseudo-node has the value S there   *)
(* is a warning and no connection.                                         *)
C18_BoundaryResolution ==
    pc \in {"ext_connections", "done"} =>
        /\ \A k \in 1..Len(ext_connections) :
              /\ \E g \in BuiltInterfaces(nodes) : g.id = ext_connections[k].id_from
              /\ \E m \in 1..Len(metanodes) :
                    metanodes[m].interfaces[1].id = ext_connections[k].id_to
        /\ \A e \in EntriesOf(design_descr) :
              (/\ EntriesOf(design_descr) = {e}
               /\ e.target.t = "str"
               /\ e.ip_name \notin Range(design_descr.design.hierarchies)) =>
                  LET found == PseudoNodesOf(metanodes, e.target.s)
                      first == CHOOSE m \in found : \A n \in found : m <= n
                  IN  /\ found = {} =>
                            /\ ext_connections = <<>>
                            /\ CountKind(log, "external_not_found") = 1
                            /\ Warn("external_not_found", e.target.s, "") \in Range(log)
                      /\ found # {} =>
                            /\ CountKind(log, "external_not_found") = 0
                            /\ \A g \in BuiltInterfaces(nodes) :
                                  (g.node = e.ip_name /\ g.name = e.port) =>
                                      IF <<g.direction,
                                           metanodes[first].interfaces[1].direction>>
                                             \in LegalPairs
                                      THEN /\ Len(ext_connections) = 1
                                           /\ ext_connections[1].id_from = g.id
                                           /\ ext_connections[1].id_to
                                                 = metanodes[first].interfaces[1].id
                                      ELSE /\ ext_connections = <<>>
                                           /\ CountKind(log, "direction_mismatch") = 1

\* two boundary signals called "a"; the first, an `inout` one, is taken although
\* only the second pairs with the input interface, so nothing is connected
C18_Witness ==
    /\ pc = "ext_connections"
    /\ EntriesOf(design_descr) = {Entry("ports", "ip1", "i", PyStr("a"))}
    /\ Len(metanodes) = 2
    /\ PseudoNodesOf(metanodes, "a") = {1, 2}
    /\ metanodes[1].type = EXT_INOUT_NAME
    /\ metanodes[2].type = EXT_INPUT_NAME
    /\ ext_connections = <<>>
    /\ CountKind(log, "direction_mismatch") = 1

\* two boundary signals called "a"; the first one is connected
C18_WitnessFirst ==
    /\ pc = "ext_connections"
    /\ EntriesOf(design_descr) = {Entry("ports", "ip1", "i", PyStr("a"))}
    /\ PseudoNodesOf(metanodes, "a") = {1, 2}
    /\ metanodes[1].type = EXT_INPUT_NAME
    /\ metanodes[2].type = EXT_OUTPUT_NAME
    /\ Len(ext_connections) = 1
    /\ ext_connections[1].id_to = metanodes[1].interfaces[1].id

\* no boundary signal is called "nx": a warning and no connection
C18_WitnessMissing ==
    /\ pc = "ext_connections"
    /\ EntriesOf(design_descr) = {Entry("ports", "ip1", "i", PyStr("nx"))}
    /\ Len(metanodes) = 2
    /\ ext_connections = <<>>
    /\ log = <<Warn("external_not_found", "nx", "")>>

\* the sections in the order they are read
SectionOrder == <<"ports", "interfaces">>

\* the places of the entries of a design: section, owner, port, each by its
\* position
EntryPlaces(dd) ==
    UNION {UNION {{<<s, i, j>> : j \in 1..Len(dd.design[SectionOrder[s]][i][2])} :
                  i \in 1..Len(dd.design[SectionOrder[s]])} :
           s \in 1..Len(SectionOrder)}

EntryAt(dd, place) ==
    LET section == dd.design[SectionOrder[place[1]]]
    IN  Entry(SectionOrder[place[1]], section[place[2]][1],
              section[place[2]][2][place[3]][1], section[place[2]][2][place[3]][2])

\* place p is read before place q
ReadBefore(p, q) ==
    \/ p[1] < q[1]
    \/ p[1] = q[1] /\ p[2] < q[2]
    \/ p[1] = q[1] /\ p[2] = q[2] /\ p[3] < q[3]

(* C19: an entry design[section][A][p] = [B, q] that survives filtering    *)
(* and resolves gives a connection from interface q of node B to interface *)
(* p of node A; the connections follow the entries, `ports` before         *)
(* `interfaces`; and two entries that describe one pair from both sides    *)
(* give two connections.                                                   *)
C19_PeerConnections ==
    pc \in {"connections", "ext_connections", "done"} =>
        LET resolved == {place \in EntryPlaces(design_descr) :
                            /\ EntryAt(design_descr, place).target.t = "list"
                            /\ Resolves(design_descr, nodes, metanodes,
                                        EntryAt(design_descr, place))}
        IN  /\ Len(connections) = Cardinality(resolved)
            /\ \A place \in resolved :
                  LET e == EntryAt(design_descr, place)
                      k == 1 + Cardinality({q \in resolved : ReadBefore(q, place)})
                  IN  \A f, g \in BuiltInterfaces(nodes) :
                          (/\ f.node = e.target.s /\ f.name = e.target.s2
                           /\ g.node = e.ip_name /\ g.name = e.port) =>
                              /\ connections[k].id_from = f.id
                              /\ connections[k].id_to = g.id

\* ip1.i = [x, o] under `interfaces` and x.o = [ip1, i] under `ports`: two
\* connections between the same two interfaces, the one of `ports` first
C19_Witness ==
    /\ pc = "connections"
    /\ EntriesOf(design_descr)
          = {Entry("interfaces", "ip1", "i", PyList("x", "o")),
             Entry("ports", "x", "o", PyList("ip1", "i"))}
    /\ Len(connections) = 2
    /\ \E f, g \in BuiltInterfaces(nodes) :
          /\ f.node = "x" /\ f.name = "o"
          /\ g.node = "ip1" /\ g.name = "i"
          /\ connections[1].id_from = g.id
          /\ connections[1].id_to = f.id
          /\ connections[2].id_from = f.id
          /\ connections[2].id_to = g.id

-----------------------------------------------------------------------------
\* common_serdes.py: a nested dictionary is flattened to tuples, the tuples
\* are annotated with field names, and the annotated tuples are folded back.
\* A value of a tree is [kind, n, items]: an int leaf, a list leaf, None, or a
\* dict whose items are <<key, value>> pairs in insertion order.

MaxDepth == 2
MaxLeaf == 1

Leaf(n) == [kind |-> "int", n |-> n, items |-> <<>>]

NoneLeaf == [kind |-> "none", n |-> 0, items |-> <<>>]

DictNode(items) == [kind |-> "dict", n |-> 0, items |-> items]

ListNode(items) == [kind |-> "list", n |-> 0, items |-> items]

\* (k, *elem) for every elem
Prefixed(k, elems) == [i \in 1..Len(elems) |-> <<k>> \o elems[i]]

\* the generator flatten(t) (lines 78-84) over the items of t
RECURSIVE FlattenItems(_)
FlattenItems(items) ==
    IF items = <<>> THEN <<>>
    ELSE LET k == Head(items)[1]
             v == Head(items)[2]
             here == IF v.kind = "dict" THEN Prefixed(k, FlattenItems(v.items))
                     ELSE IF v.kind # "none" THEN << <<k, v>> >>
                     ELSE <<>>
         IN  here \o FlattenItems(Tail(items))

\* flatten_tree(tree)
FlattenTree(tree) == FlattenItems(tree.items)

\* dict(zip(field_names, elem)), for sequences of one length
RECURSIVE ZipDict(_, _)
ZipDict(field_names, elem) ==
    IF field_names = <<>> \/ elem = <<>> THEN <<>>
    ELSE LET n == Len(field_names)
         IN  DictSet(ZipDict(SubSeq(field_names, 1, n - 1), SubSeq(elem, 1, n - 1)),
                     field_names[n], elem[n])

\* annotate_flat_tree(flat_tree, field_names): mapfunc raises ValueError on
\* the first element whose length is not the number of field names
AnnotateFlatTree(flat_tree, field_names) ==
    IF \E i \in 1..Len(flat_tree) : Len(flat_tree[i]) # Len(field_names)
    THEN [raised |-> "ValueError", value |-> <<>>]
    ELSE [raised |-> "none",
          value |-> [i \in 1..Len(flat_tree) |-> ZipDict(field_names, flat_tree[i])]]

\* the keys a tree can have, in the order sorted() puts them
Keys == <<"a", "b">>

KeyRank(k) == CHOOSE i \in 1..Len(Keys) : Keys[i] = k

\* sorted(flat_annot_tree, key=keyfunc): a stable sort
RECURSIVE SortedByField(_, _)
SortedByField(elems, field) ==
    IF elems = <<>> THEN <<>>
    ELSE LET n == Len(elems)
             last == elems[n]
             front == SortedByField(SubSeq(elems, 1, n - 1), field)
             notAfter(e) == KeyRank(DictGet(e, field)) <= KeyRank(DictGet(last, field))
             after(e) == ~notAfter(e)
         IN  SelectSeq(front, notAfter) \o <<last>> \o SelectSeq(front, after)

\* itertools.groupby(elems, key=keyfunc): runs of consecutive elements with
\* one key, as <<key, run>> pairs
RECURSIVE GroupBy(_, _)
GroupBy(elems, field) ==
    IF elems = <<>> THEN <<>>
    ELSE LET rest == GroupBy(Tail(elems), field)
             k == DictGet(Head(elems), field)
         IN  IF rest # <<>> /\ rest[1][1] = k
             THEN << <<k, <<Head(elems)>> \o rest[1][2]>> >> \o Tail(rest)
             ELSE << <<k, <<Head(elems)>>>> >> \o rest

\* unflatten_annotated_tree with a leaf that is always returned as a list
RECURSIVE UnflattenAnnotatedTreeAlwaysList(_, _, _)
UnflattenAnnotatedTreeAlwaysList(flat_annot_tree, field_order, sort) ==
    IF Len(field_order) = 1
    THEN ListNode([i \in 1..Len(flat_annot_tree) |->
                     DictGet(flat_annot_tree[i], field_order[1])])
    ELSE LET elems == IF sort THEN SortedByField(flat_annot_tree, field_order[1])
                      ELSE flat_annot_tree
             groups == GroupBy(elems, field_order[1])
             sub(i) == UnflattenAnnotatedTreeAlwaysList(groups[i][2],
                                                        Tail(field_order), FALSE)
             RECURSIVE res(_)
             res(i) == IF i = 0 THEN <<>>
                       ELSE DictSet(res(i - 1), groups[i][1], sub(i))
         IN  DictNode(res(Len(groups)))

\* unflatten_annotated_tree(flat_annot_tree, field_order, sort); the inner
\* calls do not pass sort on, so they run with its default, False
RECURSIVE UnflattenAnnotatedTree(_, _, _)
UnflattenAnnotatedTree(flat_annot_tree, field_order, sort) ==
    IF Len(field_order) = 1
    THEN IF Len(flat_annot_tree) = 1
         THEN DictGet(flat_annot_tree[1], field_order[1])
         ELSE ListNode([i \in 1..Len(flat_annot_tree) |->
                          DictGet(flat_annot_tree[i], field_order[1])])
    ELSE LET elems == IF sort THEN SortedByField(flat_annot_tree, field_order[1])
                      ELSE flat_annot_tree
             groups == GroupBy(elems, field_order[1])
             sub(i) == UnflattenAnnotatedTree(groups[i][2], Tail(field_order), FALSE)
             RECURSIVE res(_)
             res(i) == IF i = 0 THEN <<>>
                       ELSE DictSet(res(i - 1), groups[i][1], sub(i))
         IN  DictNode(res(Len(groups)))

\* ---- the trees and field names the functions are applied to ----

\* leaves: ints and a list
LeafValues == {Leaf(n) : n \in 1..MaxLeaf} \cup {ListNode(<<Leaf(1), Leaf(2)>>)}

\* the non-empty dicts over Keys with values from a set
DictsOver(values) ==
    {<< <<Keys[1], v>> >> : v \in values}
    \cup {<< <<Keys[2], v>> >> : v \in values}
    \cup {<< <<Keys[1], v>>, <<Keys[2], w>> >> : v \in values, w \in values}

\* the trees of uniform depth d with non-empty dicts (depth 0: a leaf)
RECURSIVE UniformTrees(_)
UniformTrees(d) ==
    IF d = 0 THEN LeafValues
    ELSE {DictNode(items) : items \in DictsOver(UniformTrees(d - 1))}

\* the trees offered at depth d: the uniform ones, the empty one, and trees
\* with a None value, an empty inner dict or a leaf at the wrong depth
Trees(d) ==
    {DictNode(<<>>)}
    \cup {DictNode(items) :
            items \in DictsOver(UniformTrees(d - 1) \cup LeafValues
                                \cup {NoneLeaf, DictNode(<<>>)})}

\* n distinct field names
FieldNames(n) == [i \in 1..n |-> "f" \o Str(i)]

\* value is at depth d below a dict: dicts are non-empty down to the leaves,
\* which are neither dicts nor None
RECURSIVE UniformBelow(_, _)
UniformBelow(value, d) ==
    IF d = 0 THEN value.kind \notin {"dict", "none"}
    ELSE /\ value.kind = "dict"
         /\ value.items # <<>>
         /\ \A i \in 1..Len(value.items) : UniformBelow(value.items[i][2], d - 1)

\* tree is a nested dictionary of uniform depth d
UniformDepth(tree, d) ==
    /\ tree.kind = "dict"
    /\ \A i \in 1..Len(tree.items) : UniformBelow(tree.items[i][2], d - 1)

InitSerdes ==
    /\ counter = InitialCounter
    /\ issued = <<>>
    /\ pc = "serdes"
    /\ design_descr = DesignDescr("ghost", <<>>, <<>>, <<>>)
    /\ specification = CatalogA
    /\ now = TranslationTime
    /\ nodes = <<>>
    /\ metanodes = <<>>
    /\ connections = <<>>
    /\ ext_connections = <<>>
    /\ log = <<>>
    /\ raised = "none"
    /\ dataflow = NoDocument
    /\ threads = <<>>
    /\ rpc = <<>>
    /\ \E d \in 1..MaxDepth : \E tree \in Trees(d) :
       \E field_names \in {FieldNames(d + 1), FieldNames(d), FieldNames(d + 2)} :
          serdes = [phase |-> "tree", depth |-> d, tree |-> tree,
                    field_names |-> field_names, flat_tree |-> <<>>,
                    annotated |-> <<>>, sort |-> FALSE, result |-> NoneLeaf,
                    raised |-> "none"]

\* flat = flatten_tree(t)
Flatten ==
    /\ pc = "serdes"
    /\ serdes.phase = "tree"
    /\ serdes' = [serdes EXCEPT !.phase = "flat",
                                !.flat_tree = FlattenTree(serdes.tree)]
    /\ UNCHANGED <<counter, issued, transVars, threads, rpc>>

\* annotated = annotate_flat_tree(flat, names), or ValueError
Annotate ==
    /\ pc = "serdes"
    /\ serdes.phase = "flat"
    /\ LET r == AnnotateFlatTree(serdes.flat_tree, serdes.field_names)
       IN  serdes' = [serdes EXCEPT
                        !.phase = IF r.raised = "none" THEN "annotated" ELSE "raised",
                        !.annotated = r.value,
                        !.raised = r.raised]
    /\ UNCHANGED <<counter, issued, transVars, threads, rpc>>

\* result = unflatten_annotated_tree(annotated, names, sort)
Unflatten ==
    /\ pc = "serdes"
    /\ serdes.phase = "annotated"
    /\ \E sort \in BOOLEAN :
          serdes' = [serdes EXCEPT
                       !.phase = "done",
                       !.sort = sort,
                       !.result = UnflattenAnnotatedTree(serdes.annotated,
                                                         serdes.field_names, sort)]
    /\ UNCHANGED <<counter, issued, transVars, threads, rpc>>

NextSerdes == Flatten \/ Annotate \/ Unflatten

SpecSerdes == InitSerdes /\ [][NextSerdes]_vars

\* the round trip ran to its end on a tree and names the claim covers
RoundTripDone ==
    /\ pc = "serdes"
    /\ serdes.phase = "done"
    /\ ~serdes.sort
    /\ UniformDepth(serdes.tree, serdes.depth)
    /\ Len(serdes.field_names) = serdes.depth + 1

\* C20: for a nested dictionary t of uniform depth d with non-empty inner
\* dictionaries and leaves that are neither dictionaries nor None, and d+1
\* distinct field names, unflattening the annotated flattening of t gives t
\* back; the round trip never raises on such a tree.
C20_RoundTrip ==
    /\ RoundTripDone => serdes.result = serdes.tree
    /\ (/\ pc = "serdes"
        /\ serdes.phase = "raised"
        /\ Len(serdes.field_names) = serdes.depth + 1)
       => ~UniformDepth(serdes.tree, serdes.depth)

\* a tree of depth 2 with two branches, three leaves and a list leaf came back
C20_Witness ==
    /\ RoundTripDone
    /\ serdes.depth = 2
    /\ serdes.tree = DictNode(<< <<"a", DictNode(<< <<"a", Leaf(1)>>,
                                                   <<"b", ListNode(<<Leaf(1), Leaf(2)>>)>> >>)>>,
                                <<"b", DictNode(<< <<"b", Leaf(1)>> >>)>> >>)
    /\ serdes.result = serdes.tree
    /\ Len(serdes.flat_tree) = 3

\* outside the claim's domain the tree does not come back: a None leaf is
\* dropped by the flattening
C20_WitnessNone ==
    /\ pc = "serdes"
    /\ serdes.phase = "done"
    /\ serdes.tree = DictNode(<< <<"a", Leaf(1)>>, <<"b", NoneLeaf>> >>)
    /\ serdes.result = DictNode(<< <<"a", Leaf(1)>> >>)

\* outside the claim's domain a leaf at the wrong depth raises ValueError
C20_WitnessRaised ==
    /\ pc = "serdes"
    /\ serdes.phase = "raised"
    /\ serdes.depth = 2
    /\ Len(serdes.field_names) = 3
    /\ serdes.tree = DictNode(<< <<"a", Leaf(1)>> >>)

-----------------------------------------------------------------------------
\* unflatten_annotated_tree called on its own, on flat annotated trees whose
\* elements come in any order

MaxElems == 3

\* the paths of d keys
RECURSIVE Paths(_)
Paths(d) ==
    IF d = 0 THEN {<<>>}
    ELSE {<<Keys[i]>> \o p : i \in 1..Len(Keys), p \in Paths(d - 1)}

\* the path lists of at most n paths of d keys
RECURSIVE PathLists(_, _)
PathLists(d, n) ==
    IF n = 0 THEN {<<>>}
    ELSE LET shorter == PathLists(d, n - 1)
         IN  shorter \cup {Append(l, p) : l \in {s \in shorter : Len(s) = n - 1},
                                         p \in Paths(d)}

\* the flat annotated tree with these paths; the i-th element's leaf is i
FlatAnnotTree(paths, field_names) ==
    [i \in 1..Len(paths) |-> ZipDict(field_names, Append(paths[i], Leaf(i)))]

InitUnflatten ==
    /\ counter = InitialCounter
    /\ issued = <<>>
    /\ pc = "unflatten"
    /\ design_descr = DesignDescr("ghost", <<>>, <<>>, <<>>)
    /\ specification = CatalogA
    /\ now = TranslationTime
    /\ nodes = <<>>
    /\ metanodes = <<>>
    /\ connections = <<>>
    /\ ext_connections = <<>>
    /\ log = <<>>
    /\ raised = "none"
    /\ dataflow = NoDocument
    /\ threads = <<>>
    /\ rpc = <<>>
    /\ \E d \in 1..MaxDepth : \E paths \in PathLists(d, MaxElems) :
          serdes = [phase |-> "annotated", depth |-> d, tree |-> DictNode(<<>>),
                    field_names |-> FieldNames(d + 1), flat_tree |-> <<>>,
                    annotated |-> FlatAnnotTree(paths, FieldNames(d + 1)),
                    sort |-> FALSE, result |-> NoneLeaf, raised |-> "none"]

\* result = unflatten_annotated_tree(flat_annot_tree, field_order, sort)
UnflattenCall ==
    /\ pc = "unflatten"
    /\ serdes.phase = "annotated"
    /\ \E sort \in BOOLEAN :
          serdes' = [serdes EXCEPT
                       !.phase = "done",
                       !.sort = sort,
                       !.result = UnflattenAnnotatedTree(serdes.annotated,
                                                         serdes.field_names, sort)]
    /\ UNCHANGED <<counter, issued, transVars, threads, rpc>>

SpecUnflatten == InitUnflatten /\ [][UnflattenCall]_vars

\* the non-leaf field values of an element, in field order
PathOf(elem, field_order) ==
    [k \in 1..(Len(field_order) - 1) |-> DictGet(elem, field_order[k])]

\* the leaf value of an element
LeafOf(elem, field_order) == DictGet(elem, field_order[Len(field_order)])

\* the result has a value at the path
RECURSIVE HasPath(_, _)
HasPath(value, path) ==
    IF path = <<>> THEN TRUE
    ELSE /\ value.kind = "dict"
         /\ DictHas(value.items, Head(path))
         /\ HasPath(DictGet(value.items, Head(path)), Tail(path))

\* the value of the result at a path it has
RECURSIVE ValueAt(_, _)
ValueAt(value, path) ==
    IF path = <<>> THEN value
    ELSE ValueAt(DictGet(value.items, Head(path)), Tail(path))

\* the elements with the path of the i-th element, in list order
SamePath(flat_annot_tree, field_order, i) ==
    LET same(e) == PathOf(e, field_order) = PathOf(flat_annot_tree[i], field_order)
    IN  SelectSeq(flat_annot_tree, same)

\* C21: whatever the order of the elements and the value of sort, every
\* element's leaf value is in the result at the path of its non-leaf field
\* values, alone when no other element has that path and otherwise in one
\* list with the leaf values of all the elements that have it.
C21_GroupsByValue ==
    (pc = "unflatten" /\ serdes.phase = "done") =>
        \A i \in 1..Len(serdes.annotated) :
            LET names == serdes.field_names
                path == PathOf(serdes.annotated[i], names)
                same == SamePath(serdes.annotated, names, i)
                leaves == [j \in 1..Len(same) |-> LeafOf(same[j], names)]
            IN  /\ HasPath(serdes.result, path)
                /\ ValueAt(serdes.result, path) =
                       IF Len(same) = 1 THEN leaves[1] ELSE ListNode(leaves)

\* with sort at its default, elements a, b, a: the second run of "a"
\* replaces the first and leaf 1 is gone
C21_WitnessOverwritten ==
    /\ pc = "unflatten"
    /\ serdes.phase = "done"
    /\ ~serdes.sort
    /\ serdes.depth = 1
    /\ serdes.annotated = FlatAnnotTree(<< <<"a">>, <<"b">>, <<"a">> >>, FieldNames(2))
    /\ serdes.result = DictNode(<< <<"a", Leaf(3)>>, <<"b", Leaf(2)>> >>)

\* with sort=True the inner levels are still grouped unsorted: under one top
\* key, inner keys a, b, a lose leaf 1
C21_WitnessSortedInner ==
    /\ pc = "unflatten"
    /\ serdes.phase = "done"
    /\ serdes.sort
    /\ serdes.depth = 2
    /\ serdes.annotated = FlatAnnotTree(<< <<"a", "a">>, <<"a", "b">>, <<"a", "a">> >>,
                                        FieldNames(3))
    /\ serdes.result = DictNode(<< <<"a", DictNode(<< <<"a", Leaf(3)>>,
                                                      <<"b", Leaf(2)>> >>)>> >>)

\* with sort=True and one level of keys the elements b, a, b, a are all kept
C21_WitnessSortedFlat ==
    /\ pc = "unflatten"
    /\ serdes.phase = "done"
    /\ serdes.sort
    /\ serdes.depth = 1
    /\ serdes.annotated = FlatAnnotTree(<< <<"b">>, <<"a">>, <<"b">> >>, FieldNames(2))
    /\ serdes.result = DictNode(<< <<"a", Leaf(2)>>,
                                   <<"b", ListNode(<<Leaf(1), Leaf(3)>>)>> >>)

-----------------------------------------------------------------------------
\* MarshmallowDataclassExtensions._cleanup_nulls: the serialized data of an
\* object is walked with the fields of its schema.  A schema field is
\* [name, type, required, self_cleanup, deep_cleanup]; its type is the
\* marshmallow field class ("Dict", "List" or another one, "Raw").

MaxItems == 2

EmptyStr == [kind |-> "str", n |-> 0, items |-> <<>>]

FalseLeaf == [kind |-> "bool", n |-> 0, items |-> <<>>]

\* _test_null(obj): None or an empty container
TestNull(obj) ==
    \/ obj.kind = "none"
    \/ (obj.kind \in {"dict", "list"} /\ obj.items = <<>>)

\* a deep delete that tests the children of a container before cleaning them
RECURSIVE DeepDelParentFirst(_)
DeepDelParentFirst(value) ==
    LET keepItem(item) == ~TestNull(item[2])
        keepElem(x) == ~TestNull(x)
    IN  IF value.kind = "dict"
        THEN LET kept == SelectSeq(value.items, keepItem)
             IN  DictNode([i \in 1..Len(kept) |->
                             <<kept[i][1], DeepDelParentFirst(kept[i][2])>>])
        ELSE IF value.kind = "list"
        THEN LET kept == SelectSeq(value.items, keepElem)
             IN  ListNode([i \in 1..Len(kept) |-> DeepDelParentFirst(kept[i])])
        ELSE value

\* the value _deep_del(obj, key) leaves in obj[key], from the value it finds
RECURSIVE DeepDel(_)
DeepDel(value) ==
    LET keepItem(item) == ~TestNull(item[2])
        keepElem(x) == ~TestNull(x)
    IN  IF value.kind = "dict"
        THEN LET cleaned == [i \in 1..Len(value.items) |->
                               <<value.items[i][1], DeepDel(value.items[i][2])>>]
             IN  DictNode(SelectSeq(cleaned, keepItem))
        ELSE IF value.kind = "list"
        THEN LET cleaned == [i \in 1..Len(value.items) |-> DeepDel(value.items[i])]
             IN  ListNode(SelectSeq(cleaned, keepElem))
        ELSE value

\* one round of the loop over sch.fields (lines 357-368)
CleanupField(data, fld) ==
    LET deep == IF fld.deep_cleanup /\ fld.type \in {"Dict", "List"}
                THEN DictSet(data, fld.name, DeepDel(DictGet(data, fld.name)))
                ELSE data
    IN  IF ~fld.required /\ fld.self_cleanup /\ TestNull(DictGet(deep, fld.name))
        THEN DictDel(deep, fld.name)
        ELSE deep

\* _cleanup_nulls(data, sch)
RECURSIVE CleanupNulls(_, _)
CleanupNulls(data, fields) ==
    IF fields = <<>> THEN data
    ELSE CleanupNulls(CleanupField(data, Head(fields)), Tail(fields))

\* ---- the serialized data and the schemas it is applied to ----

InnerScalars == {NoneLeaf, Leaf(0)}

Scalars == InnerScalars \cup {EmptyStr, FalseLeaf}

\* the lists of at most n elements from a set
RECURSIVE ListsOver(_, _)
ListsOver(values, n) ==
    IF n = 0 THEN {<<>>}
    ELSE LET shorter == ListsOver(values, n - 1)
         IN  shorter \cup {Append(l, v) : l \in {s \in shorter : Len(s) = n - 1},
                                         v \in values}

\* the dicts and lists over a set of values
ContainersOver(values) ==
    {DictNode(items) : items \in {<<>>} \cup DictsOver(values)}
    \cup {ListNode(items) : items \in ListsOver(values, MaxItems)}

\* what a field can hold: a scalar, or a container of scalars and containers
FieldValues == Scalars \cup ContainersOver(Scalars \cup ContainersOver(InnerScalars))

FieldTypes == {"Dict", "List", "Raw"}

\* the second field of the schema: required and marked for both cleanups,
\* of a type that is neither Dict nor List
OtherField ==
    [name |-> "other", type |-> "Raw", required |-> TRUE,
     self_cleanup |-> TRUE, deep_cleanup |-> TRUE]

InitCleanup ==
    /\ counter = InitialCounter
    /\ issued = <<>>
    /\ pc = "cleanup"
    /\ design_descr = DesignDescr("ghost", <<>>, <<>>, <<>>)
    /\ specification = CatalogA
    /\ now = TranslationTime
    /\ nodes = <<>>
    /\ metanodes = <<>>
    /\ connections = <<>>
    /\ ext_connections = <<>>
    /\ log = <<>>
    /\ raised = "none"
    /\ dataflow = NoDocument
    /\ threads = <<>>
    /\ rpc = <<>>
    /\ \E type \in FieldTypes, required \in BOOLEAN, self_cleanup \in BOOLEAN,
          deep_cleanup \in BOOLEAN, value \in FieldValues :
          serdes = [phase |-> "dumped",
                    fields |-> << [name |-> "field", type |-> type,
                                   required |-> required,
                                   self_cleanup |-> self_cleanup,
                                   deep_cleanup |-> deep_cleanup],
                                  OtherField >>,
                    org |-> << <<"field", value>>, <<"other", DictNode(<<>>)>> >>,
                    data |-> << <<"field", value>>, <<"other", DictNode(<<>>)>> >>]

\* _post_dump_handler: data = org._cleanup_nulls(data, org.Schema())
PostDumpHandler ==
    /\ pc = "cleanup"
    /\ serdes.phase = "dumped"
    /\ serdes' = [serdes EXCEPT !.phase = "cleaned",
                                !.data = CleanupNulls(serdes.data, serdes.fields)]
    /\ UNCHANGED <<counter, issued, transVars, threads, rpc>>

SpecCleanup == InitCleanup /\ [][PostDumpHandler]_vars

\* the children of a container
Children(value) ==
    IF value.kind = "dict" THEN DictValues(value.items)
    ELSE IF value.kind = "list" THEN value.items
    ELSE <<>>

\* no None and no empty dict or list anywhere inside the value
RECURSIVE NoNullInside(_)
NoNullInside(value) ==
    \A i \in 1..Len(Children(value)) :
        /\ ~TestNull(Children(value)[i])
        /\ NoNullInside(Children(value)[i])

\* a container with nothing in it but None and containers of that kind
RECURSIVE Hollow(_)
Hollow(value) ==
    /\ value.kind \in {"dict", "list"}
    /\ \A i \in 1..Len(Children(value)) :
          Children(value)[i].kind = "none" \/ Hollow(Children(value)[i])

\* the scalars other than None inside a value, in order
RECURSIVE ScalarsIn(_)
ScalarsIn(value) ==
    LET RECURSIVE upto(_)
        upto(i) == IF i = 0 THEN <<>>
                   ELSE upto(i - 1) \o ScalarsIn(Children(value)[i])
    IN  IF value.kind \in {"dict", "list"} THEN upto(Len(Children(value)))
        ELSE IF value.kind = "none" THEN <<>>
        ELSE <<value>>

\* the field's type and mark make the deep cleanup apply to it
DeepApplies(fld) == fld.deep_cleanup /\ fld.type \in {"Dict", "List"}

C22_WitnessRemoved ==
    /\ pc = "cleanup"
    /\ serdes.phase = "cleaned"
    /\ DictGet(serdes.org, "field") =
          DictNode(<< <<"a", ListNode(<<NoneLeaf>>)>>, <<"b", NoneLeaf>> >>)
    /\ serdes.data = << <<"other", DictNode(<<>>)>> >>

\* a non-required self_cleanup field holding False stays
C22_WitnessFalsy ==
    /\ pc = "cleanup"
    /\ serdes.phase = "cleaned"
    /\ ~serdes.fields[1].required
    /\ serdes.fields[1].self_cleanup
    /\ DictGet(serdes.org, "field") = FalseLeaf
    /\ DictHas(serdes.data, "field")
    /\ DictGet(serdes.data, "field") = FalseLeaf

-----------------------------------------------------------------------------
\* topwrap/kpm_topwrap_client.py: one RPCMethods object and the frontend that
\* connects to it.  rpc holds the object's fields (client, design,
\* initial_load), the files it reads (save_file, the file `design` names),
\* the requests sent through the client and one record per handled call.

MaxConnects == 3

\* kpm_dataflow_from_design_descr with its lists in hand: the document, or
\* the exception of the list that raised
DataflowFromLists(n, m, k, x, t) ==
    IF n.raised # "none"
    THEN [raised |-> n.raised, dataflow |-> NoDocument, log |-> n.log, c |-> n.c]
    ELSE IF m.raised # "none"
    THEN [raised |-> m.raised, dataflow |-> NoDocument, log |-> n.log, c |-> m.c]
    ELSE [raised |-> "none",
          dataflow |-> DataflowDocument(n.nodes, m.metanodes, k.result, x.result,
                                        t, x.c),
          log |-> n.log \o k.log \o x.log,
          c |-> x.c + 1]

\* ... once nodes, metanodes and connections are built
DataflowAfterConnections(dd, n, m, k, t) ==
    CHOOSE r \in {DataflowFromLists(n, m, k, x, t) :
                     x \in {KpmMetanodesConnectionsFromDesignDescr(
                               dd, n.nodes, m.metanodes, t, k.c)}} : TRUE

\* ... once nodes and metanodes are built
DataflowAfterMetanodes(dd, n, m, t) ==
    CHOOSE r \in {DataflowAfterConnections(dd, n, m, k, t) :
                     k \in {KpmConnectionsFromDesignDescr(dd, n.nodes, t, m.c)}} : TRUE

\* ... once the nodes are built
DataflowAfterNodes(dd, n, t) ==
    CHOOSE r \in {DataflowAfterMetanodes(dd, n, m, t) :
                     m \in {KpmMetanodesFromDesignDescr(dd, t, n.c)}} : TRUE

\* _kpm_import_handler(data, yamlfiles): the design the data holds is
\* translated against the specification of yamlfiles; [raised, dataflow,
\* log, c] as Translate gives them, each list being built once
KpmImportHandler(dd, spec, t, c) ==
    CHOOSE r \in {DataflowAfterNodes(dd, n, t) :
                     n \in {KpmNodesFromDesignDescr(dd, spec, t, c)}} : TRUE

\* the configured design file holds this design description
ConfiguredDesign == DesignDescr("ghost", <<>>, <<>>, <<>>)

\* RPCMethods.__init__, with every choice of client, design and files;
\* ipcore_yamls_to_kpm_spec(yamlfiles) gives `specification`
InitRpc ==
    /\ counter = InitialCounter
    /\ issued = <<>>
    /\ pc = "rpc"
    /\ design_descr = ConfiguredDesign
    /\ specification \in {CatalogA, CatalogBadDir}
    /\ now = TranslationTime
    /\ nodes = <<>>
    /\ metanodes = <<>>
    /\ connections = <<>>
    /\ ext_connections = <<>>
    /\ log = <<>>
    /\ raised = "none"
    /\ dataflow = NoDocument
    /\ threads = <<>>
    /\ serdes = <<>>
    /\ \E client \in {"None", "client"}, design \in {"None", "design.yaml"},
          design_file \in {"present", "absent"}, save_file \in BOOLEAN :
          rpc = [client |-> client, design |-> design, initial_load |-> TRUE,
                 design_file |-> design_file, save_file |-> save_file,
                 requests |-> <<>>, calls |-> <<>>]

\* one handled call, for the record: what it found and what it did
ConnectCall(found_save, before, after, sent, exc) ==
    [method |-> "frontend_on_connect", found_save |-> found_save,
     initial_load_before |-> before, initial_load_after |-> after,
     sent |-> sent, raised |-> exc]

\* client.request("graph_change", {"dataflow": ...}); `source` tells the file
\* the dataflow came from
GraphChangeRequest(source, doc) ==
    [method |-> "graph_change", source |-> source, dataflow |-> doc]

\* frontend_on_connect(): lines 110-121
FrontendOnConnect ==
    /\ pc = "rpc"
    /\ Len(rpc.calls) < MaxConnects
    /\ IF rpc.client = "None"
       THEN /\ rpc' = [rpc EXCEPT !.calls = Append(@,
                          ConnectCall(rpc.save_file, rpc.initial_load,
                                      rpc.initial_load, <<>>, "none"))]
            /\ UNCHANGED counter
       ELSE IF rpc.save_file /\ ~rpc.initial_load
       THEN LET req == GraphChangeRequest("save_file", NoDocument)
            IN  /\ rpc' = [rpc EXCEPT
                             !.requests = Append(@, req),
                             !.calls = Append(@,
                                ConnectCall(TRUE, FALSE, FALSE, <<req>>, "none"))]
                /\ UNCHANGED counter
       ELSE IF rpc.design # "None"
       THEN IF rpc.design_file = "absent"
            THEN \* open(self.design) raises, after line 117
                 /\ rpc' = [rpc EXCEPT
                              !.initial_load = FALSE,
                              !.calls = Append(@,
                                 ConnectCall(rpc.save_file, rpc.initial_load, FALSE,
                                             <<>>, "FileNotFoundError"))]
                 /\ UNCHANGED counter
            ELSE \E r \in {KpmImportHandler(design_descr, specification, now, counter)} :
                 \E sent \in {IF r.raised = "none"
                               THEN <<GraphChangeRequest("design", r.dataflow)>>
                               ELSE <<>>} :
                     /\ rpc' = [rpc EXCEPT
                                  !.initial_load = FALSE,
                                  !.requests = @ \o sent,
                                  !.calls = Append(@,
                                     ConnectCall(rpc.save_file, rpc.initial_load,
                                                 FALSE, sent, r.raised))]
                     /\ counter' = r.c
       ELSE /\ rpc' = [rpc EXCEPT !.calls = Append(@,
                          ConnectCall(rpc.save_file, rpc.initial_load,
                                      rpc.initial_load, <<>>, "none"))]
            /\ UNCHANGED counter
    /\ UNCHANGED <<issued, transVars, threads, serdes>>

\* nodes_on_change, properties_on_change, connections_on_change,
\* position_on_change: _kpm_handle_graph_change saves the frontend's graph
KpmHandleGraphChange ==
    /\ pc = "rpc"
    /\ rpc.client # "None"
    /\ ~rpc.save_file
    /\ rpc' = [rpc EXCEPT !.save_file = TRUE,
                          !.requests = Append(@, [method |-> "graph_get",
                                                  source |-> "frontend",
                                                  dataflow |-> NoDocument])]
    /\ UNCHANGED <<counter, issued, transVars, threads, serdes>>

NextRpc == FrontendOnConnect \/ KpmHandleGraphChange

SpecRpc == InitRpc /\ [][NextRpc]_vars

\* the graph_change requests of a call that came from a source
SentFrom(call, source) ==
    LET from(req) == req.method = "graph_change" /\ req.source = source
    IN  SelectSeq(call.sent, from)

\* C23: over the frontend_on_connect calls on an object with a client, each
\* call sends at most one graph_change request; the saved dataflow is sent
\* only by a call that finds the save file and initial_load already False;
\* initial_load becomes False only in a call that loads the configured
\* design; with a design configured the first call sends the translated
\* design whether or not a save file exists, and a later call that finds
\* the save file sends it; with no design configured nothing is ever sent.
C23_ConnectPolicy ==
    (pc = "rpc" /\ rpc.client # "None") =>
        \A i \in 1..Len(rpc.calls) :
            LET call == rpc.calls[i]
            IN  /\ Len(call.sent) <= 1
                /\ SentFrom(call, "save_file") # <<>>
                      => (call.found_save /\ ~call.initial_load_before)
                /\ (call.initial_load_before /\ ~call.initial_load_after)
                      => SentFrom(call, "design") # <<>>
                /\ (rpc.design # "None" /\ i = 1)
                      => SentFrom(call, "design") # <<>>
                /\ (rpc.design # "None" /\ i > 1 /\ call.found_save)
                      => SentFrom(call, "save_file") # <<>>
                /\ rpc.design = "None" => call.sent = <<>>

\* the configured design cannot be opened: the first call raises after it
\* has set initial_load to False, and the second call sends the save file,
\* so the design is never sent
C23_WitnessAbsent ==
    /\ pc = "rpc"
    /\ rpc.design_file = "absent"
    /\ Len(rpc.calls) = 2
    /\ rpc.calls[1].raised = "FileNotFoundError"
    /\ rpc.calls[1].initial_load_before
    /\ ~rpc.calls[1].initial_load_after
    /\ rpc.calls[1].sent = <<>>
    /\ SentFrom(rpc.calls[2], "save_file") # <<>>
    /\ Len(rpc.requests) = 1

\* the translation of the configured design raises ValueError: the same
C23_WitnessValueError ==
    /\ pc = "rpc"
    /\ rpc.design_file = "present"
    /\ Len(rpc.calls) = 2
    /\ rpc.calls[1].raised = "ValueError"
    /\ ~rpc.initial_load
    /\ rpc.calls[1].sent = <<>>
    /\ SentFrom(rpc.calls[2], "save_file") # <<>>

\* a design that loads: the first call sends it although a save file
\* exists, the second sends the save file
C23_WitnessLoaded ==
    /\ pc = "rpc"
    /\ Len(rpc.calls) = 2
    /\ rpc.calls[1].found_save
    /\ SentFrom(rpc.calls[1], "design") # <<>>
    /\ rpc.calls[1].sent[1].dataflow = Translate(ConfiguredDesign, CatalogA,
                                                 TranslationTime, 0).dataflow
    /\ SentFrom(rpc.calls[2], "save_file") # <<>>

-----------------------------------------------------------------------------
\* RPCMethods.dataflow_run and _kpm_run_handler.  The validator, the
\* conversion of the dataflow to a design and the two generators are code of
\* the repository outside src/: the validator is any [errors, warnings], the
\* conversion gives the design's name, and each generator leaves one entry
\* in the build directory.

MaxRuns == 2

\* what DataflowValidator(data).validate_kpm_design() can return
ValidatorMessages ==
    {[errors |-> e, warnings |-> w] :
        e \in {<<>>, <<"e1">>, <<"e1", "e2">>, <<"e2", "e1">>},
        w \in {<<>>, <<"w1">>}}

\* design.design.name of the converted design: None or a name
DesignNames == {"", "soc"}

\* design.design.name or "top"
TopName(design_name) == IF design_name = "" THEN "top" ELSE design_name

\* ipc.generate_top(name, build_dir)
GenerateTop(name) == [call |-> "generate_top", name |-> name]

\* ipc.generate_fuse_core(build_dir=build_dir, top_module_name=name)
GenerateFuseCore(name) == [call |-> "generate_fuse_core", name |-> name]

\* _kpm_run_handler(data, yamlfiles, build_dir): [errors, built]
KpmRunHandler(messages, design_name) ==
    [errors |-> messages.errors,
     built |-> IF messages.errors = <<>>
               THEN <<GenerateTop(TopName(design_name)),
                      GenerateFuseCore(TopName(design_name))>>
               ELSE <<>>]

\* a dataflow_run that treats warnings as dataflow_validate does
DataflowRunAsValidate(messages, design_name) ==
    LET r == KpmRunHandler(messages, design_name)
    IN  [built |-> r.built,
         reply |-> IF r.errors # <<>>
                   THEN [type |-> "ERROR", content |-> r.errors[1]]
                   ELSE IF messages.warnings # <<>>
                   THEN [type |-> "WARNING", content |-> messages.warnings[1]]
                   ELSE [type |-> "OK", content |-> "Build succeeded"]]

\* dataflow_run(dataflow): [built, reply]
DataflowRun(messages, design_name) ==
    LET r == KpmRunHandler(messages, design_name)
    IN  [built |-> r.built,
         reply |-> IF r.errors # <<>>
                   THEN [type |-> "ERROR", content |-> r.errors[1]]
                   ELSE [type |-> "OK", content |-> "Build succeeded"]]

InitRun ==
    /\ counter = InitialCounter
    /\ issued = <<>>
    /\ pc = "run"
    /\ design_descr = ConfiguredDesign
    /\ specification = CatalogA
    /\ now = TranslationTime
    /\ nodes = <<>>
    /\ metanodes = <<>>
    /\ connections = <<>>
    /\ ext_connections = <<>>
    /\ log = <<>>
    /\ raised = "none"
    /\ dataflow = NoDocument
    /\ threads = <<>>
    /\ serdes = <<>>
    /\ rpc = [build_dir |-> <<>>, calls |-> <<>>]

\* the frontend calls dataflow_run with a dataflow
DataflowRunCall ==
    /\ pc = "run"
    /\ Len(rpc.calls) < MaxRuns
    /\ \E messages \in ValidatorMessages, design_name \in DesignNames :
          LET r == DataflowRun(messages, design_name)
          IN  rpc' = [build_dir |-> rpc.build_dir \o r.built,
                      calls |-> Append(rpc.calls,
                                   [method |-> "dataflow_run", messages |-> messages,
                                    design_name |-> design_name, built |-> r.built,
                                    reply |-> r.reply])]
    /\ UNCHANGED <<counter, issued, transVars, threads, serdes>>

SpecRun == InitRun /\ [][DataflowRunCall]_vars

\* C24: dataflow_run builds the design, generate_top and then
\* generate_fuse_core, exactly when the validator reports no errors; it
\* replies ERROR with the first error when there is one and OK "Build
\* succeeded" otherwise; warnings change neither the build nor the reply.
C24_RunBuilds ==
    pc = "run" =>
        \A i \in 1..Len(rpc.calls) :
            LET call == rpc.calls[i]
                name == TopName(call.design_name)
            IN  /\ call.messages.errors = <<>>
                      => /\ call.built = <<GenerateTop(name), GenerateFuseCore(name)>>
                         /\ call.reply = [type |-> "OK", content |-> "Build succeeded"]
                /\ call.messages.errors # <<>>
                      => /\ call.built = <<>>
                         /\ call.reply = [type |-> "ERROR",
                                          content |-> call.messages.errors[1]]
                /\ \A j \in 1..Len(rpc.calls) :
                      (/\ rpc.calls[j].messages.errors = call.messages.errors
                       /\ rpc.calls[j].design_name = call.design_name)
                      => /\ rpc.calls[j].built = call.built
                         /\ rpc.calls[j].reply = call.reply

\* a run with a warning and no error built an unnamed design as "top" and
\* replied OK; a run with two errors and a warning built nothing
C24_Witness ==
    /\ pc = "run"
    /\ Len(rpc.calls) = 2
    /\ rpc.calls[1].messages = [errors |-> <<>>, warnings |-> <<"w1">>]
    /\ rpc.calls[1].design_name = ""
    /\ rpc.calls[1].reply.type = "OK"
    /\ rpc.calls[2].messages = [errors |-> <<"e2", "e1">>, warnings |-> <<"w1">>]
    /\ rpc.calls[2].reply = [type |-> "ERROR", content |-> "e2"]
    /\ rpc.build_dir = <<GenerateTop("top"), GenerateFuseCore("top")>>

-----------------------------------------------------------------------------
\* fpga_topwrap/kpm_topwrap_client.py: the message loop of kpm_run_client.
\* rpc holds the loop's position (pos), the message in hand, the messages
\* handled so far with their replies, and the exception that ended the loop.

MaxMessages == 3

\* json.dumps(x).encode(), and text.encode(): the bytes of a reply
JsonDumps(x) == [json |-> x]

Encode(text) == [text |-> text]

\* the designs an IMPORT message carries
ImportedDesigns ==
    {ConfiguredDesign,
     DesignDescr("comp", <<Entry("ports", "ip1", "o", PyList("x", "i"))>>, <<>>, <<>>)}

\* what client.wait_for_message() can return: a status other than DATA_READY,
\* or DATA_READY with (message_type, data); data matters for IMPORT only
ReceivedMessages ==
    {[status |-> s, message_type |-> "None", data |-> ConfiguredDesign] :
        s \in {"NOTHING", "CONNECTION_CLOSED"}}
    \cup {[status |-> "DATA_READY", message_type |-> type, data |-> ConfiguredDesign] :
            type \in {"SPECIFICATION", "RUN", "VALIDATE", "EXPORT", "OK"}}
    \cup {[status |-> "DATA_READY", message_type |-> "IMPORT", data |-> d] :
            d \in ImportedDesigns}

\* the message types the loop has a branch for
HandledTypes == {"SPECIFICATION", "RUN", "VALIDATE", "EXPORT", "IMPORT"}

\* client.send_message(type, content)
Reply(type, content) == [type |-> type, content |-> content]

\* lines 75-82 with the outcome r of _kpm_import_handler
ImportBranch(r) ==
    IF r.raised # "none"
    THEN [raised |-> r.raised, sent |-> <<>>, c |-> r.c]
    ELSE [raised |-> "none",
          sent |-> <<Reply("OK", JsonDumps(r.dataflow))>>, c |-> r.c]

\* lines 39-82, one round of the loop on the message in hand:
\* [raised, sent, c]
LoopBody(message, spec, t, c) ==
    IF message.status # "DATA_READY"
    THEN [raised |-> "none", sent |-> <<>>, c |-> c]
    ELSE IF message.message_type = "SPECIFICATION"
    THEN [raised |-> "none", sent |-> <<Reply("OK", JsonDumps(spec))>>, c |-> c]
    ELSE IF message.message_type \in {"RUN", "VALIDATE", "EXPORT"}
    THEN [raised |-> "none",
          sent |-> <<Reply("ERROR", Encode("Not implemented"))>>, c |-> c]
    ELSE IF message.message_type = "IMPORT"
    THEN CHOOSE out \in {ImportBranch(r) :
                           r \in {KpmImportHandler(message.data, spec, t, c)}} : TRUE
    ELSE [raised |-> "none", sent |-> <<>>, c |-> c]

\* kpm_run_client(host, port, yamlfiles) has initialized its client;
\* ipcore_yamls_to_kpm_spec(yamlfiles) gives `specification`
InitLegacy ==
    /\ counter = InitialCounter
    /\ issued = <<>>
    /\ pc = "legacy"
    /\ design_descr = ConfiguredDesign
    /\ specification \in {CatalogA, CatalogBadDir}
    /\ now = TranslationTime
    /\ nodes = <<>>
    /\ metanodes = <<>>
    /\ connections = <<>>
    /\ ext_connections = <<>>
    /\ log = <<>>
    /\ raised = "none"
    /\ dataflow = NoDocument
    /\ threads = <<>>
    /\ serdes = <<>>
    /\ rpc = [pos |-> "line37", message |-> <<>>, handled |-> <<>>,
              raised |-> "none"]

\* line 37: status, message = client.wait_for_message()
WaitForMessage ==
    /\ pc = "legacy"
    /\ rpc.pos = "line37"
    /\ Len(rpc.handled) < MaxMessages
    /\ \E message \in ReceivedMessages :
          rpc' = [rpc EXCEPT !.pos = "line39", !.message = <<message>>]
    /\ UNCHANGED <<counter, issued, transVars, threads, serdes>>

\* lines 39-82: the branches; an exception leaves the loop and the function
HandleMessage ==
    /\ pc = "legacy"
    /\ rpc.pos = "line39"
    /\ \E message \in {rpc.message[1]} :
       \E r \in {LoopBody(message, specification, now, counter)} :
           /\ rpc' = [pos |-> IF r.raised = "none" THEN "line37" ELSE "raised",
                      message |-> <<>>,
                      handled |-> Append(rpc.handled,
                                     [message |-> message, c |-> counter,
                                      sent |-> r.sent]),
                      raised |-> r.raised]
           /\ counter' = r.c
    /\ UNCHANGED <<issued, transVars, threads, serdes>>

NextLegacy == WaitForMessage \/ HandleMessage

SpecLegacy == InitLegacy /\ [][NextLegacy]_vars

\* the replies the claim gives a message
ExpectedReplies(message, spec, t, c) ==
    IF message.status # "DATA_READY" THEN <<>>
    ELSE IF message.message_type = "SPECIFICATION"
    THEN <<Reply("OK", JsonDumps(spec))>>
    ELSE IF message.message_type = "IMPORT"
    THEN <<Reply("OK", JsonDumps(Translate(message.data, spec, t, c).dataflow))>>
    ELSE <<Reply("ERROR", Encode("Not implemented"))>>

\* the messages the claim speaks of
Covered(message) ==
    \/ message.status # "DATA_READY"
    \/ message.message_type \in HandledTypes

\* the claim restricted to the rounds that end: every covered message got
\* the replies the claim gives it
AnsweredAsClaimed ==
    \A i \in 1..Len(rpc.handled) :
        LET h == rpc.handled[i]
        IN  (Covered(h.message) /\ ~(i = Len(rpc.handled) /\ rpc.pos = "raised"))
            => h.sent = ExpectedReplies(h.message, specification, now, h.c)

\* C25: in the loop of the legacy kpm_run_client every DATA_READY message of
\* type SPECIFICATION, RUN, VALIDATE, EXPORT or IMPORT has exactly one reply
\* by the time the next message is awaited, OK with the specification, OK
\* with the translated dataflow, or ERROR "Not implemented"; a message with
\* another status has no reply; and the loop goes on to the next message.
C25_EveryMessageAnswered ==
    pc = "legacy" =>
        /\ rpc.pos # "raised"
        /\ \A i \in 1..Len(rpc.handled) :
              LET h == rpc.handled[i]
              IN  Covered(h.message)
                  => h.sent = ExpectedReplies(h.message, specification, now, h.c)

\* an IMPORT whose translation raises ValueError ends the loop without a
\* reply, after a SPECIFICATION message was answered
C25_WitnessRaised ==
    /\ pc = "legacy"
    /\ rpc.pos = "raised"
    /\ rpc.raised = "ValueError"
    /\ Len(rpc.handled) = 2
    /\ rpc.handled[1].message.message_type = "SPECIFICATION"
    /\ Len(rpc.handled[1].sent) = 1
    /\ rpc.handled[2].message.message_type = "IMPORT"
    /\ rpc.handled[2].sent = <<>>

\* with a specification that translates, three messages are answered in
\* turn: an IMPORT with its dataflow, a RUN with the error, a closed
\* connection with nothing
C25_WitnessAnswered ==
    /\ pc = "legacy"
    /\ rpc.pos = "line37"
    /\ AnsweredAsClaimed
    /\ Len(rpc.handled) = 3
    /\ rpc.handled[1].message.message_type = "IMPORT"
    /\ rpc.handled[1].sent[1].type = "OK"
    /\ rpc.handled[2].message.message_type = "RUN"
    /\ rpc.handled[2].sent = <<Reply("ERROR", Encode("Not implemented"))>>
    /\ rpc.handled[3].message.status = "CONNECTION_CLOSED"
    /\ rpc.handled[3].sent = <<>>

=============================================================================
